---- MODULE Spec2Model ----
(***************************************************************************)
(* A model of tsd-file-api (src/tsdfileapi/api.py): the streaming          *)
(* ingestion handler (StreamHandler), the resumable-upload engine it       *)
(* drives (SerialResumable), the resumables handler, the byte-range        *)
(* export (FileStreamerHandler.get) and the proxy relay (ProxyHandler).    *)
(*                                                                         *)
(* The server is one tornado process: every handler callback (prepare,     *)
(* data_received, put/post/patch followed by on_finish) runs to completion *)
(* without suspending, so each callback is one atomic action and requests  *)
(* interleave between callbacks.                                           *)
(***************************************************************************)
EXTENDS Integers, Sequences, FiniteSets, TLC

VARIABLES
    fs,        \* the tenant directory: file name -> content (a sequence of bytes)
    req,       \* per request: the StreamHandler instance and its response
    uploads,   \* the resumables' metadata: upload id -> record
    nextId,    \* the next upload id SerialResumable.prepare mints
    merged,    \* history: upload id -> sequence of [n, body] merged so far
    hooks,     \* history: the request hook's invocations, [r, path]
    resp,      \* the last response of a request answered in one step: by
               \* ResumablesHandler, or by StreamHandler.prepare (a request it finishes)
    ex,        \* FileStreamerHandler.get: the state of one ranged download
    site,      \* the backend and tenant whose directory fs is
    px         \* ProxyHandler: the state of one relayed request

vars == <<fs, req, uploads, nextId, merged, hooks, resp, ex, site, px>>

----------------------------------------------------------------------------
(* Bounds *)

NumReqs == 2          \* PATCH requests per behaviour, two requestors
NumLifecycleReqs == 3 \* PATCH requests per behaviour, one requestor
NumStreamReqs == 2    \* PUT and POST requests per behaviour
NumDisconnectReqs == 1 \* PUT and POST requests per behaviour, every backend
NumFaultReqs == 1     \* PUT and POST requests per behaviour, stale staging file
BodyChunks == 2       \* data_received calls per PUT/POST body (one byte each)
PatchBodyChunks == 1  \* data_received calls per PATCH body (one byte each)
MaxChunk == 2         \* largest chunk number a client sends
MaxUploads == 2       \* upload ids SerialResumable.prepare may mint
MaxFileSize == 5      \* size of the exported file
MaxChunkSize == 3     \* largest export_chunk_size
ExportMaxNumList == 2 \* export_max_num_list: the longest directory listed
ProxyChunks == 2      \* data_received calls per relayed body

Max(a, b) == IF a > b THEN a ELSE b
Reqs == 1..Max(NumReqs, Max(NumLifecycleReqs, NumStreamReqs))
PatchReqs == 1..NumReqs
LifecycleReqs == 1..NumLifecycleReqs
StreamReqs == 1..NumStreamReqs
DisconnectReqs == 1..NumDisconnectReqs
FaultReqs == 1..NumFaultReqs
Requestors == {"A", "B"}
Targets == {"F1", "F2"}
IllegalName == "../F1"
IllegalNames == {IllegalName, ".hidden"}
End == 0              \* the literal chunk=end
Absent == -1          \* query parameter not in the URL
NoneId == 0           \* id=None: the value the proxy sends for a first chunk
OldContent == <<9>>   \* content of a file settled before the behaviour starts

----------------------------------------------------------------------------
(* File names.  k: kind, t: target basename, u: upload id (resumable        *)
(* subdirectory), n: chunk number, r: the uuid of a ".<uuid>.part" suffix   *)
(* (the request that drew it; 0: no suffix).                                *)

NoName == [k |-> "none", t |-> "", u |-> 0, n |-> 0, r |-> 0]
Visible(t) == [k |-> "file", t |-> t, u |-> 0, n |-> 0, r |-> 0]
ChunkName(t, u, n) == [k |-> "chunk", t |-> t, u |-> u, n |-> n, r |-> 0]
DataName(t, u) == [k |-> "data", t |-> t, u |-> u, n |-> 0, r |-> 0]

\* one staging name for the whole tenant directory
PartOf_shared(name, r) == [k |-> "file", t |-> "F1", u |-> 0, n |-> 0, r |-> 1]

\* self.path + '.' + str(uuid4()) + '.part'
PartOf(name, r) == [name EXCEPT !.r = r]

lexists(f, name) == name \in DOMAIN f

\* f with name bound to content (created or replaced)
WriteFile(f, name, content) ==
    [x \in DOMAIN f \cup {name} |-> IF x = name THEN content ELSE f[x]]

RemoveFile(f, name) == [x \in DOMAIN f \ {name} |-> f[x]]

\* os.rename(src, dst) when src exists: dst is replaced
Rename(f, src, dst) ==
    [x \in (DOMAIN f \ {src}) \cup {dst} |-> IF x = dst THEN f[src] ELSE f[x]]

\* an open that never truncates, and one that always does
OpenFile_keep(f, name, mode) == IF ~lexists(f, name) THEN WriteFile(f, name, <<>>) ELSE f
OpenFile_truncate(f, name, mode) == WriteFile(f, name, <<>>)

\* open(path, mode): 'wb+' creates or truncates, 'ab+' creates or keeps
OpenFile(f, name, mode) ==
    IF mode = "wb+" \/ ~lexists(f, name) THEN WriteFile(f, name, <<>>) ELSE f

\* str(n) as a sequence of characters, n >= 0
Digits == <<"0", "1", "2", "3", "4", "5", "6", "7", "8", "9">>
RECURSIVE Str(_)
Str(n) == IF n < 10 THEN <<Digits[n + 1]>> ELSE Str(n \div 10) \o <<Digits[(n % 10) + 1]>>

\* the i-th chunk of request r's body: one byte, r*10+i
BodyByte(r, i) == r * 10 + i

----------------------------------------------------------------------------
(* StreamHandler: one instance per request *)

\* the attributes StreamHandler.prepare sets first, and the response; found is
\* history: what the visible name held when prepare moved it aside
IdleReq ==
    [pc |-> "idle", method |-> "", t |-> "", who |-> "",
     path |-> NoName, path_part |-> NoName, target_file |-> "none",
     arg_chunk |-> Absent, arg_id |-> Absent, arg_group |-> FALSE,
     chunk_num |-> Absent, upload_id |-> Absent,
     completed_resumable_file |-> FALSE, chunk_order_correct |-> TRUE,
     final |-> NoName, recvd |-> 0, len |-> 0, status |-> 0, msg |-> "",
     custom_content_type |-> "", child_exit |-> Absent, found |-> <<>>, auth |-> "valid",
     body |-> [filename |-> <<>>, id |-> Absent, max_chunk |-> Absent]]

\* utils.check_filename: the path guard
check_filename(name) == name \notin IllegalNames

\* self.finish(...) or the end of the method: the response is written
Respond(h, status, msg) == [h EXCEPT !.pc = "done", !.status = status, !.msg = msg]

\* on_finish, first part: a file left open is closed and renamed
on_finish_fs(f, h) ==
    IF h.target_file = "open" /\ lexists(f, h.path)
    THEN Rename(f, h.path, h.path_part)
    ELSE f

\* what the Authorization header of a request is like
AuthKinds == {"missing", "malformed", "tenant_mismatch", "bad_signature", "valid"}

\* auth.process_access_token: status is true iff the token verifies and, with
\* the tenant check enabled, names the tenant of the URL
process_access_token(auth) == [status |-> (auth = "valid")]

process_token_never_fails(auth) == 0

\* process_token_and_extract_claims: 0 if the claims are returned, else the
\* status the exception leaves.  The inner handlers set 400 or 401; the outer
\* except tests self.status, which is None since line 165, and sets 401.
process_token_and_extract_claims(auth) ==
    LET inner == IF auth \in {"missing", "malformed"} THEN 400
                 ELSE IF ~process_access_token(auth).status THEN 401
                 ELSE 0
        self_status_unset == TRUE
    IN IF inner = 0 THEN 0
       ELSE IF self_status_unset THEN 401 ELSE inner

\* on_finish, line 1207: the arguments of the hook.  self.group_name is set by
\* prepare at lines 987-990, once the token gate has let the request through;
\* without it the call raises AttributeError, which line 1209 catches.
group_name_set(h) == h.auth = "valid"

hook_special_case_p01(backend, tenant) == backend = "cluster" /\ tenant = "p01"

\* on_finish, line 1202: the case in which the hook is passed over
hook_special_case(backend, tenant) == backend = "cluster" /\ tenant # "p01"

\* on_finish, second part: the request hook, unless the backend is cluster and
\* the tenant is not p01, or the backend has no hook.  r is the request, h its
\* handler as the method left it.
on_finish_hooks(hk, r, h) ==
    IF h.method \in {"PUT", "POST"} \/ (h.method = "PATCH" /\ h.chunk_num = End)
    THEN IF hook_special_case(site.backend, site.tenant) \/ ~site.request_hook_enabled
            \/ ~group_name_set(h)
         THEN hk
         ELSE IF ~h.completed_resumable_file
         THEN hk \cup {[r |-> r, path |-> h.path_part]}
         ELSE IF h.final # NoName
              THEN hk \cup {[r |-> r, path |-> h.final]}
              ELSE hk
    ELSE hk

\* prepare's outer except: the request is finished inside prepare
prepare_failed(h) ==
    IF h.chunk_order_correct
    THEN Respond(h, 200, "stream processing failed")
    ELSE Respond(h, 200, "chunk_order_incorrect")

\* prepare, lines 974-978 and 1059-1065: the token gate raised.  The status
\* is the one process_token_and_extract_claims set.
token_failed(h, status) == Respond(h, status, "stream processing failed")

\* the response of a request that prepare finished: no later callback of the
\* request runs, so its handler is not kept
Finished(h) ==
    [who |-> h.who, kind |-> h.method, t |-> h.t, status |-> h.status, msg |-> h.msg,
     ids |-> {}, arg_chunk |-> h.arg_chunk, arg_id |-> h.arg_id, arg_group |-> h.arg_group,
     token_failed |-> h.auth # "valid"]

\* prepare, lines 1012-1026: never write to the visible name
\* returns the file system and the handler with path and path_part swapped
StagePath(f, h, name, r) ==
    LET part == PartOf(name, r)
        f1 == IF lexists(f, name) THEN Rename(f, name, part) ELSE f
    IN [fs |-> f1, h |-> [h EXCEPT !.path = part, !.path_part = name,
                                   !.found = IF lexists(f, name) THEN f[name] ELSE <<>>]]

\* requests are numbered in the order their headers arrive
NextToArrive(r) == req[r].pc = "idle" /\ (IF r = 1 THEN TRUE ELSE req[r - 1].pc # "idle")

\* the Content-Type header: "" is no header, "application/octet-stream" a type
\* without handler; application/aes stands for aes and aes-octet-stream,
\* application/tar for tar, tar.gz, tar.aes and tar.gz.aes, application/gz
\* for gz and gz.aes, whose handlers and method branches do the same to the files
Transforms == {"application/aes", "application/tar", "application/gz"}
ContentTypes == {"", "application/octet-stream"} \cup Transforms

\* what the child process (openssl, gunzip) writes for one byte it reads
Decoded(byte) == byte + 100

\* prepare, lines 1027-1047: the content type's handler
\* aes: openssl writes to self.path itself; tar: tar extracts into the tenant
\* directory; gz: gunzip writes to the file opened at self.path
handle_content_type(f, h, ct, mode) ==
    IF ct = "application/aes"
    THEN [fs |-> OpenFile(f, h.path, "wb+"),
          h |-> [h EXCEPT !.custom_content_type = ct]]
    ELSE IF ct = "application/tar"
    THEN [fs |-> f, h |-> [h EXCEPT !.custom_content_type = ct]]
    ELSE IF ct = "application/gz"
    THEN [fs |-> OpenFile(f, h.path, mode),
          h |-> [h EXCEPT !.custom_content_type = ct, !.target_file = "open"]]
    ELSE [fs |-> OpenFile(f, h.path, mode), h |-> [h EXCEPT !.target_file = "open"]]

\* prepare, lines 1050-1058: the handler of an exception raised once the paths
\* are set.  os.rename(self.path, self.path_part) either works, and then the
\* exception is dropped and prepare returns without finishing the request
\* (swallowed), or raises OSError, which goes on to the outer except.
prepare_except(f, h) ==
    IF lexists(f, h.path)
    THEN [swallowed |-> TRUE, fs |-> Rename(f, h.path, h.path_part)]
    ELSE [swallowed |-> FALSE, fs |-> f]

\* StreamHandler.prepare for the PUT or POST request r: method m, URL filename
\* name, Content-Type ct; openfails: open(self.path, filemode) raises
prepare_put_post(r, who, auth, m, name, ct, openfails) ==
    LET h0 == [IdleReq EXCEPT !.method = m, !.t = name, !.who = who, !.len = BodyChunks,
                              !.auth = auth]
        token == process_token_and_extract_claims(auth)
        \* lines 1012-1013, before the swap
        hp == [h0 EXCEPT !.path = Visible(name), !.path_part = PartOf(Visible(name), r)]
        st == StagePath(fs, h0, Visible(name), r)
        mode == IF m = "POST" THEN "ab+" ELSE "wb+"
        hd == handle_content_type(st.fs, st.h, ct, mode)
        Fail(f, h) == LET h1 == prepare_failed(h)
                      IN /\ resp' = Finished(h1)
                         /\ req' = req
                         /\ fs' = on_finish_fs(f, h1)
                         /\ hooks' = on_finish_hooks(hooks, r, h1)
        GoOn(f, h) == /\ fs' = f
                      /\ req' = [req EXCEPT ![r] = [h EXCEPT !.pc = "body"]]
                      /\ hooks' = hooks
                      /\ resp' = resp
    IN IF token # 0
       THEN LET h1 == token_failed(h0, token)
            IN /\ resp' = Finished(h1)
               /\ req' = req
               /\ fs' = on_finish_fs(fs, h1)
               /\ hooks' = on_finish_hooks(hooks, r, h1)
       ELSE IF ct = "" \/ ~check_filename(name)
       THEN Fail(fs, h0)
       ELSE IF lexists(fs, hp.path_part)
       THEN \* lines 1014-1016: the staging path exists, raise
            LET e == prepare_except(fs, hp)
            IN IF e.swallowed THEN GoOn(e.fs, hp) ELSE Fail(e.fs, hp)
       ELSE IF openfails /\ ct \notin Transforms
       THEN \* line 1042 raises, the paths are swapped
            LET e == prepare_except(st.fs, st.h)
            IN IF e.swallowed THEN GoOn(e.fs, st.h) ELSE Fail(e.fs, st.h)
       ELSE GoOn(hd.fs, hd.h)

\* StreamHandler.prepare for PUT and POST
PreparePutPost(r, who) ==
    /\ NextToArrive(r)
    /\ \E m \in {"PUT", "POST"}, name \in Targets \cup {IllegalName}, ct \in ContentTypes :
         prepare_put_post(r, who, "valid", m, name, ct, FALSE)
    /\ UNCHANGED <<uploads, nextId, merged, ex, site, px>>

\* StreamHandler.prepare for PUT and POST on a disk where open may fail
PreparePutPostIO(r, who) ==
    /\ NextToArrive(r)
    /\ \E m \in {"PUT", "POST"}, name \in Targets \cup {IllegalName}, ct \in ContentTypes,
          openfails \in BOOLEAN :
         prepare_put_post(r, who, "valid", m, name, ct, openfails)
    /\ UNCHANGED <<uploads, nextId, merged, ex, site, px>>

\* file.write(chunk) on the handle opened at h.path
WriteChunk(f, h, byte) ==
    IF lexists(f, h.path) THEN WriteFile(f, h.path, Append(f[h.path], byte)) ELSE f

\* data_received, lines 1071-1094: the chunk goes to the file, or to the stdin
\* of the child, which writes what it decodes to the file (tar: to the
\* members it extracts, none of them a target)
ReceiveChunk(f, h, byte) ==
    IF h.custom_content_type = "" THEN WriteChunk(f, h, byte)
    ELSE IF h.custom_content_type = "application/tar" THEN f
    ELSE WriteChunk(f, h, Decoded(byte))

\* StreamHandler.data_received for PUT and POST
DataReceived(r) ==
    /\ req[r].pc = "body"
    /\ req[r].method \in {"PUT", "POST"}
    /\ req[r].recvd < req[r].len
    /\ \E ioerror \in (IF req[r].custom_content_type = "" /\ req[r].target_file = "none"
                        THEN {TRUE}  \* self.target_file is None: AttributeError
                        ELSE BOOLEAN) :
         IF ~ioerror
         THEN /\ fs' = ReceiveChunk(fs, req[r], BodyByte(r, req[r].recvd + 1))
              /\ req' = [req EXCEPT ![r].recvd = @ + 1]
              /\ hooks' = hooks
         ELSE \* except: close the file, os.rename(self.path, self.path_part), send_error
              LET h1 == Respond([req[r] EXCEPT !.target_file =
                                    IF @ = "open" THEN "closed" ELSE @], 500, "error")
              IN /\ fs' = IF lexists(fs, req[r].path)
                          THEN Rename(fs, req[r].path, req[r].path_part)
                          ELSE fs
                 /\ req' = [req EXCEPT ![r] = h1]
                 /\ hooks' = on_finish_hooks(hooks, r, h1)
    /\ UNCHANGED <<uploads, nextId, merged, resp, ex, site, px>>

\* put and post, lines 1109-1125: the status communicate() leaves in
\* proc.returncode is not read; the response is 201 whatever it is
transform_status(child_exit) == 201

\* StreamHandler.put and StreamHandler.post, then on_finish
PutPost(r) ==
    /\ req[r].pc = "body"
    /\ req[r].method \in {"PUT", "POST"}
    /\ req[r].recvd = req[r].len
    /\ LET h == [req[r] EXCEPT !.target_file = IF @ = "open" THEN "closed" ELSE @]
       IN IF h.custom_content_type = ""
          THEN IF lexists(fs, h.path)
               THEN LET h1 == Respond(h, 201, "data streamed")
                    IN /\ fs' = Rename(fs, h.path, h.path_part)
                       /\ req' = [req EXCEPT ![r] = h1]
                       /\ hooks' = on_finish_hooks(hooks, r, h1)
               ELSE LET h1 == Respond(h, 500, "error")
                    IN /\ fs' = fs
                       /\ req' = [req EXCEPT ![r] = h1]
                       /\ hooks' = on_finish_hooks(hooks, r, h1)
          ELSE \E child_exit \in {0, 1} :
                 LET hx == [h EXCEPT !.child_exit = child_exit]
                 IN IF h.custom_content_type = "application/tar"
                    THEN LET h1 == Respond(hx, transform_status(child_exit), "data streamed")
                         IN /\ fs' = fs
                            /\ req' = [req EXCEPT ![r] = h1]
                            /\ hooks' = on_finish_hooks(hooks, r, h1)
                    ELSE IF lexists(fs, h.path)
                    THEN LET h1 == Respond(hx, transform_status(child_exit), "data streamed")
                         IN /\ fs' = Rename(fs, h.path, h.path_part)
                            /\ req' = [req EXCEPT ![r] = h1]
                            /\ hooks' = on_finish_hooks(hooks, r, h1)
                    ELSE LET h1 == Respond(hx, 500, "error")
                         IN /\ fs' = fs
                            /\ req' = [req EXCEPT ![r] = h1]
                            /\ hooks' = on_finish_hooks(hooks, r, h1)
    /\ UNCHANGED <<uploads, nextId, merged, resp, ex, site, px>>

\* on_connection_close, line 1223: the name tenant is bound nowhere, neither in
\* the method nor in the module, so evaluating it raises NameError; the 'and'
\* evaluates it only when the backend is cluster
tenant_name_error(backend) == backend = "cluster"

\* StreamHandler.on_connection_close: the client went away mid-body.  Without
\* a file object the AttributeError ends the callback; with one, the file is
\* closed and the hook gets self.path, the staging name.  A NameError is not
\* caught: the callback raises (pc "close_raised").  Nothing is renamed.
ConnectionClose(r) ==
    /\ req[r].pc = "body"
    /\ req[r].method \in {"PUT", "POST"}
    /\ req[r].recvd < req[r].len
    /\ IF req[r].target_file # "open"
       THEN /\ req' = [req EXCEPT ![r].pc = "closed"]
            /\ hooks' = hooks
       ELSE IF tenant_name_error(site.backend)
       THEN /\ req' = [req EXCEPT ![r] = [@ EXCEPT !.pc = "close_raised",
                                                    !.target_file = "closed"]]
            /\ hooks' = hooks
       ELSE /\ req' = [req EXCEPT ![r] = [@ EXCEPT !.pc = "closed",
                                                    !.target_file = "closed"]]
            /\ hooks' = IF site.request_hook_enabled
                        THEN hooks \cup {[r |-> r, path |-> req[r].path]}
                        ELSE hooks
    /\ UNCHANGED <<fs, uploads, nextId, merged, resp, ex, site, px>>

----------------------------------------------------------------------------
(* Direct ingestion of whole files: PUT and POST requests on the targets *)

NoResp ==
    [who |-> "", kind |-> "", t |-> "", status |-> 0, msg |-> "", ids |-> {},
     arg_chunk |-> Absent, arg_id |-> Absent, arg_group |-> FALSE, token_failed |-> FALSE]
\* FileStreamerHandler before a request: nothing read, nothing sent
NoExport ==
    [pc |-> "idle", method |-> "", auth |-> "", name |-> "", file |-> <<>>, mime |-> "",
     mtime |-> 0, accept_ranges |-> FALSE,
     config |-> [has_tenant |-> FALSE,
                 tenant |-> [enabled |-> FALSE, allowed_mime_types |-> {}, max_size |-> 0],
                 default |-> [enabled |-> FALSE, allowed_mime_types |-> {}, max_size |-> 0]],
     dir |-> <<>>, listing |-> <<>>,
     range |-> <<>>, if_range |-> "", CHUNK_SIZE |-> 0,
     client_start |-> 0, client_end |-> 0,
     status |-> 0, message |-> "", content_length |-> Absent, bytes_to_read |-> 0,
     pos |-> 0, data |-> <<>>, sent |-> 0, body |-> <<>>]

\* main, lines 1519-1557: the routes' backends.  StreamHandler.initialize keeps
\* the backend and request_hook_enabled; the tenant is the URL's.
Sites ==
    {[backend |-> "files", tenant |-> "p11", request_hook_enabled |-> TRUE],
     [backend |-> "cluster", tenant |-> "p11", request_hook_enabled |-> TRUE],
     [backend |-> "cluster", tenant |-> "p01", request_hook_enabled |-> TRUE],
     [backend |-> "store", tenant |-> "p11", request_hook_enabled |-> FALSE]}
FilesSite == [backend |-> "files", tenant |-> "p11", request_hook_enabled |-> TRUE]

\* ProxyHandler before a request
NoProxy ==
    [pc |-> "idle", method |-> "", auth |-> "", filename |-> "", groups |-> {},
     has_groups |-> FALSE, arg_group |-> <<>>, group_name |-> <<>>,
     fetch |-> FALSE, chunks |-> <<>>, recvd |-> 0, producer |-> "idle", held |-> 0,
     written |-> <<>>, got_sentinel |-> FALSE, inner |-> [status |-> 0, body |-> ""],
     status |-> 0, body |-> ""]

InitStream ==
    /\ fs \in {f \in UNION {[S -> {OldContent}] : S \in SUBSET {Visible(t) : t \in Targets}} : TRUE}
    /\ req = [r \in Reqs |-> IdleReq]
    /\ uploads = <<>>
    /\ nextId = 1
    /\ merged = <<>>
    /\ hooks = {}
    /\ resp = NoResp
    /\ ex = NoExport
    /\ site = FilesSite
    /\ px = NoProxy

NextStream ==
    \E r \in StreamReqs :
        \/ PreparePutPost(r, "A")
        \/ DataReceived(r)
        \/ PutPost(r)
        \/ ConnectionClose(r)

SpecStream == InitStream /\ [][NextStream]_vars

\* One PUT or POST request on each backend, the client free to go away
InitDisconnect ==
    /\ fs \in {f \in UNION {[S -> {OldContent}] : S \in SUBSET {Visible(t) : t \in Targets}} : TRUE}
    /\ req = [r \in Reqs |-> IdleReq]
    /\ uploads = <<>>
    /\ nextId = 1
    /\ merged = <<>>
    /\ hooks = {}
    /\ resp = NoResp
    /\ ex = NoExport
    /\ site \in Sites
    /\ px = NoProxy

NextDisconnect ==
    \E r \in DisconnectReqs :
        \/ PreparePutPost(r, "A")
        \/ DataReceived(r)
        \/ PutPost(r)
        \/ ConnectionClose(r)

SpecDisconnect == InitDisconnect /\ [][NextDisconnect]_vars

\* content of a staging file left behind before the behaviour starts
StaleContent == <<8>>

\* the staging files left behind: one per request and target, named with the
\* uuid the request will draw
StaleNames == {PartOf(Visible(t), r) : t \in Targets, r \in FaultReqs}

\* PUT and POST requests where uuid4 may draw the name of a staging file that
\* exists, and open may fail
InitFaults ==
    /\ fs \in {f \in UNION {[S -> {OldContent, StaleContent}] :
                             S \in SUBSET ({Visible(t) : t \in Targets} \cup StaleNames)} :
                 \A x \in DOMAIN f : f[x] = (IF x \in StaleNames THEN StaleContent
                                              ELSE OldContent)}
    /\ req = [r \in Reqs |-> IdleReq]
    /\ uploads = <<>>
    /\ nextId = 1
    /\ merged = <<>>
    /\ hooks = {}
    /\ resp = NoResp
    /\ ex = NoExport
    /\ site = FilesSite
    /\ px = NoProxy

NextFaults ==
    \E r \in FaultReqs :
        \/ PreparePutPostIO(r, "A")
        \/ DataReceived(r)
        \/ PutPost(r)
        \/ ConnectionClose(r)

SpecFaults == InitFaults /\ [][NextFaults]_vars

\* the bytes of request r's body that content holds
BytesOf(content, r) ==
    {i \in 1..BodyChunks : \E k \in 1..Len(content) : content[k] = BodyByte(r, i)}

\* content holds some, but not all, of the body of request r
PartialBody(content, r) == BytesOf(content, r) # {} /\ BytesOf(content, r) # 1..BodyChunks

\* C1: atomic visibility.  In every reachable state, no visible target path P
\* holds only part of the body of a PUT/POST request: partly written data is
\* never to be found under P, whether the request completes or fails.
C1_AtomicVisibility ==
    \A t \in Targets : \A r \in Reqs :
        lexists(fs, Visible(t)) => ~PartialBody(fs[Visible(t)], r)

----------------------------------------------------------------------------
(* SerialResumable: the resumable engine, as section 4.5 of the             *)
(* specification describes it.  An upload's working directory is the set    *)
(* of file names whose u is the upload id; its metadata is uploads[u].      *)

\* files of upload u's working directory
UploadDir(f, u) == {x \in DOMAIN f : x.u = u}

\* last_chunk_num of upload u
last_merged(ups, u) == ups[u].last

\* SerialResumable.prepare(work_dir, filename, chunk_num, upload_id, group, owner):
\* raised: an exception; otherwise the tuple the handler unpacks, and the
\* engine's state after the call (a first chunk creates the resumable)
res_prepare(ups, nid, t, chunk, id, who) ==
    IF id = NoneId /\ chunk # End
    THEN [raised |-> FALSE, chunk_num |-> chunk, upload_id |-> nid,
          completed |-> FALSE, order_ok |-> TRUE, filename |-> ChunkName(t, nid, chunk),
          uploads |-> [u \in DOMAIN ups \cup {nid} |->
                          IF u = nid THEN [t |-> t, owner |-> who, last |-> 0, size |-> 0]
                          ELSE ups[u]],
          nextId |-> nid + 1]
    ELSE IF id \in DOMAIN ups /\ ups[id].owner = who /\ ups[id].t = t
    THEN [raised |-> FALSE, chunk_num |-> chunk, upload_id |-> id,
          completed |-> (chunk = End),
          order_ok |-> (chunk = End \/ chunk > last_merged(ups, id)),
          filename |-> ChunkName(t, id, chunk),
          uploads |-> ups, nextId |-> nid]
    ELSE [raised |-> TRUE, chunk_num |-> Absent, upload_id |-> Absent,
          completed |-> FALSE, order_ok |-> TRUE, filename |-> NoName,
          uploads |-> ups, nextId |-> nid]

\* SerialResumable.merge_chunk can run: the upload and the chunk file exist
can_merge(f, ups, chunkfile) == chunkfile.u \in DOMAIN ups /\ lexists(f, chunkfile)

\* SerialResumable.merge_chunk: append the chunk to the growing file, advance
\* last_merged, delete the chunk file
merge_fs(f, chunkfile) ==
    LET data == DataName(chunkfile.t, chunkfile.u)
        old == IF lexists(f, data) THEN f[data] ELSE <<>>
    IN RemoveFile(WriteFile(f, data, old \o f[chunkfile]), chunkfile)

merge_uploads(f, ups, chunkfile) ==
    [ups EXCEPT ![chunkfile.u] =
        [@ EXCEPT !.last = chunkfile.n, !.size = @ + Len(f[chunkfile])]]

\* SerialResumable.finalise can run: the upload and its growing file exist
can_finalise(f, ups, t, u) == u \in DOMAIN ups /\ lexists(f, DataName(t, u))

\* SerialResumable.finalise: rename the growing file to the target, tear down
\* the upload's working directory and metadata
finalise_fs(f, t, u) ==
    LET f1 == Rename(f, DataName(t, u), Visible(t))
    IN [x \in DOMAIN f1 \ UploadDir(f1, u) |-> f1[x]]

remove_upload(ups, u) == [x \in DOMAIN ups \ {u} |-> ups[x]]

\* SerialResumable.delete: true iff the caller's resumable was removed
can_delete(ups, t, u, who) == u \in DOMAIN ups /\ ups[u].owner = who /\ ups[u].t = t

delete_fs(f, u) == [x \in DOMAIN f \ UploadDir(f, u) |-> f[x]]

\* SerialResumable.list_all and SerialResumable.info: the caller's resumables
list_all(ups, who) == {u \in DOMAIN ups : ups[u].owner = who}

res_info(ups, t, id, who) ==
    {u \in DOMAIN ups : ups[u].owner = who /\ ups[u].t = t /\ (id = Absent \/ u = id)}

----------------------------------------------------------------------------
(* StreamHandler: PATCH, the resumable upload *)

\* a prepare that lets every chunk number through
chunk_rejected_never(h) == FALSE

\* prepare, lines 1009-1010: an out-of-order chunk raises
chunk_rejected(h) == ~h.chunk_order_correct

\* merged with one more chunk of upload u
LogMerge(mg, u, n, body) == [mg EXCEPT ![u] = Append(@, [n |-> n, body |-> body])]

\* StreamHandler.prepare for PATCH
PreparePatch(r, who, t, chunk, id, group) ==
    /\ NextToArrive(r)
    /\   LET h0 == [IdleReq EXCEPT !.method = "PATCH", !.t = t, !.who = who,
                                   !.arg_chunk = chunk, !.arg_id = id,
                                   !.arg_group = group,
                                   !.len = IF chunk = End THEN 0 ELSE PatchBodyChunks]
             p == res_prepare(uploads, nextId, t, chunk, id, who)
             h1 == [h0 EXCEPT !.chunk_num = p.chunk_num, !.upload_id = p.upload_id,
                              !.completed_resumable_file = p.completed,
                              !.chunk_order_correct = p.order_ok]
         IN IF id = Absent \/ ~group
               THEN \* get_query_argument raises MissingArgumentError
                    LET h2 == prepare_failed(h0)
                    IN /\ resp' = Finished(h2)
                       /\ req' = req
                       /\ fs' = on_finish_fs(fs, h2)
                       /\ hooks' = on_finish_hooks(hooks, r, h2)
                       /\ UNCHANGED <<uploads, nextId, merged>>
               ELSE IF p.raised
               THEN LET h2 == prepare_failed(h0)
                    IN /\ resp' = Finished(h2)
                       /\ req' = req
                       /\ fs' = on_finish_fs(fs, h2)
                       /\ hooks' = on_finish_hooks(hooks, r, h2)
                       /\ UNCHANGED <<uploads, nextId, merged>>
               ELSE /\ p.nextId <= MaxUploads + 1
                    /\ uploads' = p.uploads
                    /\ nextId' = p.nextId
                    /\ merged' = [u \in DOMAIN p.uploads \cup DOMAIN merged |->
                                     IF u \in DOMAIN merged THEN merged[u] ELSE <<>>]
                    /\ IF chunk_rejected(h1)
                       THEN LET h2 == prepare_failed(h1)
                            IN /\ resp' = Finished(h2)
                               /\ req' = req
                               /\ fs' = on_finish_fs(fs, h2)
                               /\ hooks' = on_finish_hooks(hooks, r, h2)
                       ELSE LET st == StagePath(fs, h1, p.filename, r)
                            IN /\ fs' = IF h1.completed_resumable_file
                                        THEN st.fs
                                        ELSE OpenFile(st.fs, st.h.path, "wb+")
                               /\ req' = [req EXCEPT ![r] =
                                    [st.h EXCEPT !.pc = "body",
                                                 !.target_file =
                                                    IF h1.completed_resumable_file
                                                    THEN "none" ELSE "open"]]
                               /\ hooks' = hooks
                               /\ resp' = resp
    /\ UNCHANGED <<ex, site, px>>

\* StreamHandler.data_received for PATCH: SerialResumable.add_chunk
DataReceivedPatch(r) ==
    /\ req[r].pc = "body"
    /\ req[r].method = "PATCH"
    /\ req[r].recvd < req[r].len
    /\ \E ioerror \in BOOLEAN :
         IF ~ioerror
         THEN /\ fs' = WriteChunk(fs, req[r], BodyByte(r, req[r].recvd + 1))
              /\ req' = [req EXCEPT ![r].recvd = @ + 1]
              /\ hooks' = hooks
         ELSE LET h1 == Respond([req[r] EXCEPT !.target_file = "closed"], 500, "error")
              IN /\ fs' = IF lexists(fs, req[r].path)
                          THEN Rename(fs, req[r].path, req[r].path_part)
                          ELSE fs
                 /\ req' = [req EXCEPT ![r] = h1]
                 /\ hooks' = on_finish_hooks(hooks, r, h1)
    /\ UNCHANGED <<uploads, nextId, merged, resp, ex, site, px>>

\* patch, lines 1166-1173: the destination exists; the envelope is written, then
\* the 201 response reads the local 'filename', which this branch never bound
dest_exists_response(h) == Respond(h, 500, "error")

\* os.path.basename of a stored name, in pieces: the target's name, and for a
\* chunk '.chunk', '.' and the digits of its number
basename(name) ==
    IF name.k = "chunk" THEN <<name.t, ".chunk", ".">> \o Str(name.n) ELSE <<name.t>>

RECURSIVE before_chunk(_)
\* s.split('.chunk')[0]: what comes before the first '.chunk'
before_chunk(s) ==
    IF s = <<>> \/ Head(s) = ".chunk" THEN <<>> ELSE <<Head(s)>> \o before_chunk(Tail(s))

\* a response that echoes the id of the URL
patch_body_url_id(h) ==
    [filename |-> before_chunk(basename(h.path_part)), id |-> h.arg_id,
     max_chunk |-> h.chunk_num]

\* patch, lines 1164 and 1173: the body of the 201 response for a merged chunk
patch_body(h) ==
    [filename |-> before_chunk(basename(h.path_part)), id |-> h.upload_id,
     max_chunk |-> h.chunk_num]

\* patch, lines 1171 and 1173: the body of the 201 response for chunk=end
patch_body_final(h) ==
    [filename |-> basename(Visible(h.t)), id |-> h.upload_id, max_chunk |-> h.chunk_num]

\* patch, line 1162: the chunk may be renamed and merged
may_merge(f, h) == ~lexists(f, h.path_part)

\* StreamHandler.patch, then on_finish
Patch(r) ==
    /\ req[r].pc = "body"
    /\ req[r].method = "PATCH"
    /\ req[r].recvd = req[r].len
    /\ LET h == req[r]
           hc == [h EXCEPT !.target_file = "closed"]
           renamed == Rename(fs, h.path, h.path_part)
       IN IF ~h.completed_resumable_file
          THEN IF may_merge(fs, h)
               THEN IF lexists(fs, h.path)
                    THEN \E mergefails \in BOOLEAN :
                           IF can_merge(renamed, uploads, h.path_part) /\ ~mergefails
                           THEN LET h1 == [Respond(hc, 201, "filename,id,max_chunk")
                                              EXCEPT !.body = patch_body(hc)]
                                IN /\ fs' = merge_fs(renamed, h.path_part)
                                   /\ uploads' = merge_uploads(renamed, uploads, h.path_part)
                                   /\ merged' = LogMerge(merged, h.upload_id, h.path_part.n,
                                                         renamed[h.path_part])
                                   /\ req' = [req EXCEPT ![r] = h1]
                                   /\ hooks' = on_finish_hooks(hooks, r, h1)
                           ELSE LET h1 == Respond(hc, 500, "error")
                                IN /\ fs' = renamed
                                   /\ req' = [req EXCEPT ![r] = h1]
                                   /\ hooks' = on_finish_hooks(hooks, r, h1)
                                   /\ UNCHANGED <<uploads, merged>>
                    ELSE LET h1 == Respond(hc, 500, "error")
                         IN /\ fs' = fs
                            /\ req' = [req EXCEPT ![r] = h1]
                            /\ hooks' = on_finish_hooks(hooks, r, h1)
                            /\ UNCHANGED <<uploads, merged>>
               ELSE LET h1 == dest_exists_response(hc)
                    IN /\ fs' = fs
                       /\ req' = [req EXCEPT ![r] = h1]
                       /\ hooks' = on_finish_hooks(hooks, r, h1)
                       /\ UNCHANGED <<uploads, merged>>
          ELSE IF can_finalise(fs, uploads, h.t, h.upload_id)
               THEN LET h1 == [Respond([h EXCEPT !.final = Visible(h.t)], 201,
                                       "filename,id,max_chunk")
                                  EXCEPT !.body = patch_body_final(h)]
                    IN /\ fs' = finalise_fs(fs, h.t, h.upload_id)
                       /\ uploads' = remove_upload(uploads, h.upload_id)
                       /\ req' = [req EXCEPT ![r] = h1]
                       /\ hooks' = on_finish_hooks(hooks, r, h1)
                       /\ merged' = merged
               ELSE LET h1 == Respond(h, 500, "error")
                    IN /\ fs' = fs
                       /\ req' = [req EXCEPT ![r] = h1]
                       /\ hooks' = on_finish_hooks(hooks, r, h1)
                       /\ UNCHANGED <<uploads, merged>>
    /\ UNCHANGED <<nextId, resp, ex, site, px>>

----------------------------------------------------------------------------
(* ResumablesHandler *)

\* the resumables a response reveals, each with the owner it had
Reveal(ups, ids) == {[id |-> u, owner |-> ups[u].owner] : u \in ids}

\* a listing that leaves the requestor out
get_info_unfiltered(ups, who, withname, t, id) ==
    IF withname THEN res_info(ups, t, id, who) ELSE DOMAIN ups

\* get, lines 769-773: list_all without a filename, info with one, both for
\* self.requestor
get_info(ups, who, withname, t, id) ==
    IF withname THEN res_info(ups, t, id, who) ELSE list_all(ups, who)

\* ResumablesHandler.get
ResumablesGet(who, withname, t, id) ==
    /\ resp' = [NoResp EXCEPT !.who = who, !.kind = "get", !.status = 200,
                                !.ids = Reveal(uploads, get_info(uploads, who, withname, t, id))]
    /\ UNCHANGED <<fs, req, uploads, nextId, merged, hooks, ex, site, px>>

\* a delete that does not assert the engine's answer
delete_status_unchecked(deleted) == 200

\* delete, lines 796-802: 200 if res.delete returned true, else 400
delete_status(deleted) == IF deleted THEN 200 ELSE 400

\* ResumablesHandler.delete
ResumablesDelete(who, t, id) ==
    /\ LET deleted == id # Absent /\ can_delete(uploads, t, id, who)
       IN /\ fs' = IF deleted THEN delete_fs(fs, id) ELSE fs
          /\ uploads' = IF deleted THEN remove_upload(uploads, id) ELSE uploads
          /\ resp' = [NoResp EXCEPT !.who = who, !.kind = "delete", !.arg_id = id,
                                      !.status = delete_status(deleted)]
    /\ UNCHANGED <<req, nextId, merged, hooks, ex, site, px>>

Init ==
    /\ fs = <<>>
    /\ req = [r \in Reqs |-> IdleReq]
    /\ uploads = <<>>
    /\ nextId = 1
    /\ merged = <<>>
    /\ hooks = {}
    /\ resp = NoResp
    /\ ex = NoExport
    /\ site = FilesSite
    /\ px = NoProxy

\* the query parameters chunk and id of a PATCH
ChunkArgs == (1..MaxChunk) \cup {End}
IdArgs == {Absent, NoneId} \cup (1..MaxUploads)

\* Resumable uploads of one target by two requestors, and the resumables endpoint
Next ==
    \/ \E r \in PatchReqs :
          \/ \E who \in Requestors, chunk \in ChunkArgs, id \in IdArgs, group \in BOOLEAN :
                PreparePatch(r, who, "F1", chunk, id, group)
          \/ DataReceivedPatch(r)
          \/ Patch(r)
    \/ \E who \in Requestors, id \in IdArgs \ {NoneId} :
          \/ \E withname \in BOOLEAN : ResumablesGet(who, withname, "F1", id)
          \/ ResumablesDelete(who, "F1", id)

Spec == Init /\ [][Next]_vars

\* One requestor's uploads from first chunk to finalize or delete
NextLifecycle ==
    \/ \E r \in LifecycleReqs :
          \/ \E chunk \in ChunkArgs, id \in IdArgs \ {Absent} :
                PreparePatch(r, "A", "F1", chunk, id, TRUE)
          \/ DataReceivedPatch(r)
          \/ Patch(r)
    \/ \E who \in Requestors, id \in IdArgs \ {NoneId} : ResumablesDelete(who, "F1", id)

SpecLifecycle == Init /\ [][NextLifecycle]_vars

----------------------------------------------------------------------------
(* Properties of the resumable upload *)

\* the chunk numbers merged into upload u, in the order they were merged
MergedNums(u) == [i \in 1..Len(merged[u]) |-> merged[u][i].n]

\* C2: chunk monotonicity.  For every upload id, the chunk numbers merged so
\* far are exactly 1, 2, 3, ... in this order: strictly increasing, contiguous
\* and starting at 1, whatever chunk requests were sent.
C2_ChunkMonotonicity ==
    \A u \in DOMAIN merged : \A i \in 1..Len(merged[u]) : MergedNums(u)[i] = i

\* request r is a chunk request (not chunk=end) that prepare let through
IsChunkRequest(r) ==
    req[r].method = "PATCH" /\ req[r].pc # "idle" /\ ~req[r].completed_resumable_file

\* the chunk request r was answered 201: its chunk was merged
Merged201(r) == IsChunkRequest(r) /\ req[r].pc = "done" /\ req[r].status = 201

\* the PATCH the last response answers named an upload of the caller and a
\* chunk number not above that upload's last_merged in state (ups)
OutOfOrder(ups, a) ==
    /\ a.arg_group
    /\ a.arg_chunk >= 1
    /\ a.arg_id \in DOMAIN ups
    /\ ups[a.arg_id].owner = a.who
    /\ a.arg_chunk <= last_merged(ups, a.arg_id)

C4_SingleMerge ==
    \A r1, r2 \in Reqs :
        (r1 # r2 /\ Merged201(r1) /\ Merged201(r2) /\ req[r1].t = req[r2].t
           /\ req[r1].upload_id = req[r2].upload_id)
        => req[r1].chunk_num # req[r2].chunk_num

\* C5: when patch finds the chunk's destination name already there, it renames
\* and merges nothing and answers {message: chunk_order_incorrect}.
C5_DestinationExists ==
    [][ \A r \in Reqs :
          (IsChunkRequest(r) /\ req[r].pc = "body" /\ req[r].recvd = req[r].len
             /\ req'[r].pc = "done" /\ lexists(fs, req[r].path_part))
          => /\ UNCHANGED <<fs, uploads, merged>>
             /\ req'[r].msg = "chunk_order_incorrect" ]_vars

\* the bodies merged into upload u under chunk number n, in the log mg
BodiesOf(mg, u, n) == {mg[u][i].body : i \in {j \in 1..Len(mg[u]) : mg[u][j].n = n}}

\* each of the chunks 1..k of upload u has one body
HasChunks(mg, u, k) == \A n \in 1..k : Cardinality(BodiesOf(mg, u, n)) = 1

RECURSIVE ConcatChunks(_, _, _)
\* the bodies of chunks 1..k of upload u, concatenated in numeric order
ConcatChunks(mg, u, k) ==
    IF k = 0 THEN <<>>
    ELSE ConcatChunks(mg, u, k - 1) \o (CHOOSE b \in BodiesOf(mg, u, k) : TRUE)

GrowingFile(f, t, u) == IF lexists(f, DataName(t, u)) THEN f[DataName(t, u)] ELSE <<>>

\* C6: the growing file of every active resumable is the concatenation of the
\* bodies of chunks 1..last_chunk_num in numeric order and merged_size is its
\* size; the file a chunk=end request finalizes is that concatenation.
C6_FinalizeEquivalence ==
    [][ /\ \A u \in DOMAIN uploads' :
             /\ HasChunks(merged', u, uploads'[u].last)
             /\ GrowingFile(fs', uploads'[u].t, u) = ConcatChunks(merged', u, uploads'[u].last)
             /\ Len(GrowingFile(fs', uploads'[u].t, u)) = uploads'[u].size
        /\ \A r \in Reqs :
             (req[r].pc = "body" /\ req'[r].pc = "done" /\ req'[r].status = 201
                /\ req[r].completed_resumable_file)
             => fs'[Visible(req[r].t)] = ConcatChunks(merged, req[r].upload_id,
                                                       uploads[req[r].upload_id].last) ]_vars

\* C7: the terminal states leave nothing of the upload on disk.  After a
\* chunk=end request is answered 201 the target exists and neither metadata nor
\* any file of the upload's working directory (chunk, .part, growing file)
\* remains; after a DELETE is answered 200 likewise.
C7_TerminalCleanup ==
    /\ \A r \in Reqs :
         (req[r].pc = "done" /\ req[r].completed_resumable_file /\ req[r].status = 201)
         => /\ req[r].upload_id \notin DOMAIN uploads
            /\ UploadDir(fs, req[r].upload_id) = {}
            /\ lexists(fs, Visible(req[r].t))
    /\ (resp.kind = "delete" /\ resp.status = 200)
         => /\ resp.arg_id \notin DOMAIN uploads
            /\ UploadDir(fs, resp.arg_id) = {}

\* an upload was finalized and another one deleted
C7_Witness ==
    /\ \E r \in Reqs :
         req[r].pc = "done" /\ req[r].completed_resumable_file /\ req[r].status = 201
    /\ resp.kind = "delete" /\ resp.status = 200 /\ resp.arg_id \in DOMAIN merged

\* the step acts on upload u: it changes or removes its metadata or its files
Touches(u) ==
    \/ u \notin DOMAIN uploads'
    \/ uploads'[u] # uploads[u]
    \/ UploadDir(fs', u) # UploadDir(fs, u)
    \/ \E x \in UploadDir(fs, u) \cap UploadDir(fs', u) : fs'[x] # fs[x]

\* the step is a callback of a request of requestor who, or who's DELETE
StepOf(who) ==
    \/ \E r \in Reqs : req'[r] # req[r] /\ req'[r].who = who
    \/ resp'.kind = "delete" /\ resp'.who = who

\* C8: ownership isolation.  A listing or info lookup reveals only resumables
\* owned by the caller, also when two requestors upload the same target; and
\* every step that changes or removes a resumable (resume, delete) is a step of
\* its owner.
C8_OwnershipIsolation ==
    [][ /\ resp'.kind = "get" => \A e \in resp'.ids : e.owner = resp'.who
        /\ \A u \in DOMAIN uploads : Touches(u) => StepOf(uploads[u].owner) ]_vars

\* both requestors have a resumable of F1 with merged data, and one listed hers
C8_Witness ==
    /\ \E u1, u2 \in DOMAIN uploads :
         /\ uploads[u1].owner = "A" /\ uploads[u2].owner = "B"
         /\ uploads[u1].t = uploads[u2].t
         /\ uploads[u1].last >= 1
    /\ resp.kind = "get" /\ resp.ids # {}

\* C9: a PATCH with chunk=1 and no id parameter is accepted (a fresh id is
\* minted, the chunk merged, the answer 201): it is not finished in prepare.
C9_FirstChunkWithoutId ==
    (resp.kind = "PATCH" /\ resp.arg_chunk = 1 /\ resp.arg_id = Absent /\ resp.arg_group)
        => resp.status = 201

----------------------------------------------------------------------------------------------------------------------------------------
(* AuthRequestHandler: the token gate *)

----------------------------------------------------------------------------
(* FileStreamerHandler: the export policy and the directory listing *)

Mimes == {"text/plain", "application/zip"}

\* one export policy of the configuration
Policies ==
    [enabled : BOOLEAN, allowed_mime_types : {{"*"}, {"text/plain"}}, max_size : {0, 3}]

\* the policy every tenant without one of its own gets
DefaultPolicy == [enabled |-> TRUE, allowed_mime_types |-> {"text/plain"}, max_size |-> 3]

\* options.config[...]['export_policy']: the tenant's policy, if any, and the default
PolicyConfigs ==
    {[has_tenant |-> TRUE, tenant |-> p, default |-> DefaultPolicy] : p \in Policies}
    \cup {[has_tenant |-> FALSE, tenant |-> DefaultPolicy, default |-> DefaultPolicy]}

\* a policy check that lets every file through
enforce_export_policy_open(policy_config, name, size, mime_type, message) ==
    [status |-> TRUE, message |-> message]

\* enforce_export_policy: the status it returns and self.message afterwards
enforce_export_policy(policy_config, name, size, mime_type, message) ==
    IF ~check_filename(name)
    THEN [status |-> FALSE, message |-> "Illegal export filename"]
    ELSE LET policy == IF policy_config.has_tenant THEN policy_config.tenant
                       ELSE policy_config.default
         IN IF ~policy.enabled
            THEN [status |-> TRUE, message |-> message]
            ELSE LET mime_ok == "*" \in policy.allowed_mime_types
                                \/ mime_type \in policy.allowed_mime_types
                     m1 == IF mime_ok THEN message
                           ELSE "not allowed to export file with MIME type"
                 IN IF policy.max_size # 0 /\ size > policy.max_size
                    THEN [status |-> FALSE, message |-> "File size exceeds maximum allowed"]
                    ELSE [status |-> mime_ok, message |-> m1]

\* what the export directory may hold: files, a hidden file, a sub-directory
DirEntries ==
    {[name |-> "report.txt", isdir |-> FALSE, size |-> 2, mime |-> "text/plain"],
     [name |-> "big.txt", isdir |-> FALSE, size |-> 5, mime |-> "text/plain"],
     [name |-> "data.zip", isdir |-> FALSE, size |-> 2, mime |-> "application/zip"],
     [name |-> ".hidden", isdir |-> FALSE, size |-> 2, mime |-> "text/plain"],
     [name |-> "sub", isdir |-> TRUE, size |-> 0, mime |-> "inode/directory"]}

\* os.listdir: the entries in some order, each once
Dirs ==
    {d \in UNION {[1..n -> DirEntries] : n \in 0..(ExportMaxNumList + 1)} :
        \A i, j \in 1..Len(d) : i # j => d[i].name # d[j].name}

RECURSIVE list_entries(_, _, _)
\* list_files, lines 310-347: the file_info of the entries, self.message threaded
\* through the loop.  exportable is the JSON value: "true", "false" or "null".
list_entries(files, policy_config, message) ==
    IF files = <<>> THEN <<>>
    ELSE LET e == Head(files)
             pol == enforce_export_policy(policy_config, e.name, e.size, e.mime, message)
             status == IF e.isdir THEN "null" ELSE IF pol.status THEN "true" ELSE "false"
             msg == IF e.isdir THEN "exporting from directories not supported yet"
                    ELSE pol.message
             reason == IF status = "true" THEN "null" ELSE msg
         IN <<[filename |-> e.name, exportable |-> status, reason |-> reason]>>
            \o list_entries(Tail(files), policy_config, msg)

----------------------------------------------------------------------------
(* FileStreamerHandler.get: one request for the listing or for one file *)

\* an exportable file of the given size: byte i (0-based) has the value i
FileBytes(size) == [i \in 1..size |-> i - 1]

Min(a, b) == IF a < b THEN a ELSE b

\* fd.read(n) at offset pos: at most n bytes, fewer at the end of the file
Read(file, pos, n) == SubSeq(file, pos + 1, Min(pos + n, Len(file)))

\* the value of one digit character, Absent if it is none
DigitValue(c) == IF \E i \in 1..10 : Digits[i] = c
                 THEN (CHOOSE i \in 1..10 : Digits[i] = c) - 1 ELSE Absent

RECURSIVE int(_)
\* int(s): the number s spells, Absent for ValueError (empty, or not all digits)
int(s) ==
    IF s = <<>> THEN Absent
    ELSE LET d == DigitValue(s[Len(s)])
             front == SubSeq(s, 1, Len(s) - 1)
         IN IF d = Absent THEN Absent
            ELSE IF front = <<>> THEN d
            ELSE IF int(front) = Absent THEN Absent ELSE int(front) * 10 + d

RECURSIVE split(_, _)
\* s.split(sep): the pieces of s between the occurrences of the character sep
split(s, sep) ==
    IF \A i \in 1..Len(s) : s[i] # sep THEN <<s>>
    ELSE LET i == CHOOSE k \in 1..Len(s) : s[k] = sep /\ \A j \in 1..(k - 1) : s[j] # sep
         IN <<SubSeq(s, 1, i - 1)>> \o split(SubSeq(s, i + 1, Len(s)), sep)

\* Range header values
RangeValue(a, b) == <<"b", "y", "t", "e", "s", "=">> \o Str(a) \o <<"-">> \o Str(b)
OpenRange(a) == <<"b", "y", "t", "e", "s", "=">> \o Str(a) \o <<"-">>
MultiRange(a, b, c, d) == RangeValue(a, b) \o <<",">> \o Str(c) \o <<"-">> \o Str(d)
CommaRange(a, b) == OpenRange(a) \o <<",", "-">> \o Str(b)

\* the Range headers sent for a file of the given size; <<>>: no Range header
RangeHeaders(size) ==
    {<<>>}
    \cup UNION {{RangeValue(a, b) : b \in a..(size + 1)} : a \in 0..(size - 1)}
    \cup {OpenRange(a) : a \in 0..(size - 1)}
    \cup {MultiRange(0, a, b, size - 1) : a, b \in 0..(size - 1)}
    \cup {CommaRange(0, size - 1)}

\* hashlib.md5(s).hexdigest() on the strings that occur
md5(s) == IF s = <<"1">> THEN "c4ca4238" ELSE IF s = <<"2">> THEN "c81e728d" ELSE "d41d8cd9"

\* the last modification times a file may have
Mtimes == {1, 2}

\* compute_etag: md5 of the string value of the file's mtime
compute_etag(mtime) == md5(Str(mtime))

\* the If-Range headers sent; "": none
IfRangeHeaders == {""} \cup {compute_etag(m) : m \in Mtimes}

\* get, line 450: the resource changed since the client got its Etag
etag_differs_never(provided_etag, computed_etag) == FALSE
etag_differs(provided_etag, computed_etag) == provided_etag # computed_etag

\* get, line 460: a multipart range is refused
is_multipart(start_and_end) == \E i \in 1..Len(start_and_end) : start_and_end[i] = <<",">>

\* get, line 470: the range ends beyond the resource
range_exceeds_never(client_end, full_file_size) == FALSE
range_exceeds(client_end, full_file_size) == client_end > full_file_size

\* the request ends with {message: ...} and the given status
ExportError(e, status) == [e EXCEPT !.pc = "done", !.status = status]

\* get, lines 446-484: the Range branch up to the first block read
get_range(e) ==
    LET full_file_size == Len(e.file)
        pieces == split(e.range, "=")
        start_and_end == split(pieces[Len(pieces)], "-")
        client_start == int(start_and_end[1])
        client_end == IF Len(start_and_end) >= 2 /\ int(start_and_end[2]) # Absent
                      THEN int(start_and_end[2]) ELSE full_file_size - 1
        bytes_to_read == client_end - client_start + 1
        CS == IF e.CHUNK_SIZE > bytes_to_read THEN bytes_to_read ELSE e.CHUNK_SIZE
    IN IF e.if_range # "" /\ etag_differs(e.if_range, compute_etag(e.mtime))
       THEN ExportError(e, 400)
       ELSE IF is_multipart(start_and_end)
       THEN ExportError(e, 405)
       ELSE IF client_start = Absent
       THEN ExportError(e, 200)
       ELSE IF range_exceeds(client_end, full_file_size)
       THEN ExportError([e EXCEPT !.client_start = client_start,
                                  !.client_end = client_end], 416)
       ELSE [e EXCEPT !.pc = "loop", !.status = 200,
                      !.client_start = client_start, !.client_end = client_end,
                      !.content_length = bytes_to_read,
                      !.bytes_to_read = bytes_to_read,
                      !.CHUNK_SIZE = CS,
                      !.data = Read(e.file, client_start, CS),
                      !.pos = Min(client_start + CS, full_file_size),
                      !.sent = CS]

\* a whole-file branch that announces the first block only
get_whole_first_block(e) ==
    [e EXCEPT !.pc = "loop_whole", !.status = 200,
              !.content_length = Min(e.CHUNK_SIZE, Len(e.file)),
              !.data = Read(e.file, 0, e.CHUNK_SIZE),
              !.pos = Min(e.CHUNK_SIZE, Len(e.file))]

\* get, lines 437-441: no Range header, the whole file, first block read
get_whole(e) ==
    [e EXCEPT !.pc = "loop_whole", !.status = 200, !.content_length = Len(e.file),
              !.data = Read(e.file, 0, e.CHUNK_SIZE),
              !.pos = Min(e.CHUNK_SIZE, Len(e.file))]

\* get, lines 400-436: token, listing or path guard, existence, export policy
get_checks(auth, name, exists, size, mime, mtime, config, dir, cs, range, if_range) ==
    LET e0 == [NoExport EXCEPT !.method = "GET", !.auth = auth]
        token == process_token_and_extract_claims(auth)
        e1 == [e0 EXCEPT !.name = name]
        e2 == [e1 EXCEPT !.file = FileBytes(size), !.mime = mime, !.mtime = mtime,
                         !.config = config]
        pol == enforce_export_policy(config, name, size, mime, "Unknown error")
        e3 == [e2 EXCEPT !.CHUNK_SIZE = cs, !.range = range,
                         !.if_range = IF range = <<>> THEN "" ELSE if_range]
    IN IF token # 0 THEN ExportError(e0, 401)
       ELSE IF name = ""
       THEN IF Len(dir) > ExportMaxNumList
            THEN ExportError([e0 EXCEPT !.dir = dir], 400)
            ELSE [e0 EXCEPT !.pc = "done", !.status = 200, !.dir = dir, !.config = config,
                            !.listing = list_entries(dir, config, "Unknown error")]
       ELSE IF ~check_filename(name) THEN ExportError(e1, 403)
       ELSE IF ~exists THEN ExportError(e1, 404)
       ELSE IF ~pol.status THEN ExportError(e2, 400)
       ELSE IF range = <<>> THEN get_whole(e3)
       ELSE get_range(e3)

\* the names a GET asks for that it serves nothing for; "ghost" is not in the
\* directory
RefusedNames == {".hidden", IllegalName, "ghost"}

\* FileStreamerHandler.get up to its first flush.  The request is drawn no
\* further than the handler reads it.
ExportGet ==
    /\ ex.pc = "idle"
    /\ \/ \E auth \in AuthKinds \ {"valid"} :
             ex' = get_checks(auth, "", FALSE, 1, "", 1, NoExport.config, <<>>, 1, <<>>, "")
       \/ \E config \in PolicyConfigs, dir \in Dirs :
             ex' = get_checks("valid", "", FALSE, 1, "", 1, config, dir, 1, <<>>, "")
       \/ \E name \in RefusedNames :
             ex' = get_checks("valid", name, name # "ghost", 1, "", 1, NoExport.config,
                              <<>>, 1, <<>>, "")
       \/ \E size \in 1..MaxFileSize, mime \in Mimes, mtime \in Mtimes,
             config \in PolicyConfigs, cs \in 1..MaxChunkSize,
             if_range \in IfRangeHeaders :
          \E range \in RangeHeaders(size) :
             ex' = get_checks("valid", "report.txt", TRUE, size, mime, mtime, config,
                              <<>>, cs, range, if_range)
    /\ UNCHANGED <<fs, req, uploads, nextId, merged, hooks, resp, site, px>>

\* get, lines 442-445 and 485-490: one turn of the while loop (it suspends at
\* the flush), or its exit and the end of the response
ExportLoop ==
    /\ \/ /\ ex.pc = "loop"
          /\ IF ex.data # <<>> /\ ex.sent <= ex.bytes_to_read
             THEN ex' = [ex EXCEPT !.body = @ \o ex.data,
                                   !.data = Read(ex.file, ex.pos, ex.CHUNK_SIZE),
                                   !.pos = Min(ex.pos + ex.CHUNK_SIZE, Len(ex.file)),
                                   !.sent = @ + ex.CHUNK_SIZE]
             ELSE ex' = [ex EXCEPT !.pc = "done"]
       \/ /\ ex.pc = "loop_whole"
          /\ IF ex.data # <<>>
             THEN ex' = [ex EXCEPT !.body = @ \o ex.data,
                                   !.data = Read(ex.file, ex.pos, ex.CHUNK_SIZE),
                                   !.pos = Min(ex.pos + ex.CHUNK_SIZE, Len(ex.file))]
             ELSE ex' = [ex EXCEPT !.pc = "done"]
    /\ UNCHANGED <<fs, req, uploads, nextId, merged, hooks, resp, site, px>>

NextExport == ExportGet \/ ExportLoop

SpecExport == Init /\ [][NextExport]_vars

\* head, lines 545-548: the except clause writes {message} and sets no status;
\* the status is the one set before the raise, or the handler's initial 200
HeadError(e, status_set, status) ==
    [e EXCEPT !.pc = "done", !.status = IF status_set THEN status ELSE 200]

\* FileStreamerHandler.head, lines 504-550
head_checks(auth, name, exists, size, mime, config) ==
    LET e0 == [NoExport EXCEPT !.method = "HEAD", !.auth = auth]
        token == process_token_and_extract_claims(auth)
        e1 == [e0 EXCEPT !.name = name]
        e2 == [e1 EXCEPT !.file = FileBytes(size), !.mime = mime, !.config = config]
        pol == enforce_export_policy(config, name, size, mime, "Unknown error")
    IN IF token # 0 THEN HeadError(e0, TRUE, 401)
       ELSE IF name = "" THEN HeadError(e0, FALSE, 0)
       ELSE IF ~check_filename(name) THEN HeadError(e1, TRUE, 403)
       ELSE IF ~exists THEN HeadError(e1, TRUE, 404)
       ELSE IF ~pol.status THEN HeadError(e2, FALSE, 0)
       ELSE [e2 EXCEPT !.pc = "done", !.status = 200, !.content_length = size,
                       !.accept_ranges = TRUE]

\* FileStreamerHandler.head.  The request is drawn no further than the handler
\* reads it.
ExportHead ==
    /\ ex.pc = "idle"
    /\ \/ \E auth \in AuthKinds \ {"valid"} :
             ex' = head_checks(auth, "", FALSE, 1, "", NoExport.config)
       \/ \E name \in RefusedNames \cup {""} :
             ex' = head_checks("valid", name, name \notin {"ghost", ""}, 1, "", NoExport.config)
       \/ \E size \in 1..MaxFileSize, mime \in Mimes, config \in PolicyConfigs :
             ex' = head_checks("valid", "report.txt", TRUE, size, mime, config)
    /\ UNCHANGED <<fs, req, uploads, nextId, merged, hooks, resp, site, px>>

\* GET and HEAD requests on the export endpoint
NextHead == ExportHead \/ ExportGet \/ ExportLoop

SpecHead == Init /\ [][NextHead]_vars

\* C10: range correctness.  For a file of size S, any export_chunk_size >= 1
\* and any Range: bytes=a-b with 0 <= a <= b < S, the finished response has
\* Content-Length b-a+1 and its body is exactly the bytes F[a..b].
C10_RangeCorrectness ==
    \A a, b \in 0..(MaxFileSize - 1) :
        (ex.pc = "done" /\ ex.range = RangeValue(a, b) /\ a <= b /\ b < Len(ex.file)
           /\ (ex.if_range = "" \/ ex.if_range = compute_etag(ex.mtime)))
        => /\ ex.content_length = b - a + 1
           /\ ex.body = SubSeq(ex.file, a + 1, b + 1)

\* the response is to a GET of a file with a Range header, and an If-Range
\* header that is absent or names the file's current Etag
RangedGet == ex.pc # "idle" /\ ex.range # <<>>
IfRangeCurrent == ex.if_range = "" \/ ex.if_range = compute_etag(ex.mtime)

C12_MultipartRejected ==
    \A a, b \in 0..(MaxFileSize - 1) :
        (RangedGet /\ IfRangeCurrent /\ ex.range = MultiRange(0, a, b, Len(ex.file) - 1))
        => (ex.pc = "done" /\ ex.status = 405 /\ ex.body = <<>>)

\* C13: a ranged GET whose end index is greater than the file size is answered
\* 416 and no byte of the file is sent.
C13_RangeUnsatisfiable ==
    \A a \in 0..(MaxFileSize - 1), b \in 0..(MaxFileSize + 1) :
        (RangedGet /\ IfRangeCurrent /\ ex.range = RangeValue(a, b) /\ b > Len(ex.file))
        => (ex.pc = "done" /\ ex.status = 416 /\ ex.body = <<>>)

\* a range ending beyond the file was asked for and answered
C13_Witness ==
    /\ ex.pc = "done" /\ ex.status = 416
    /\ ex.range = RangeValue(0, Len(ex.file) + 1)

\* the export policy as evaluated for a file: the tenant's policy if there is
\* one, else the default; if enabled, the MIME type is allowed or '*' is, and
\* the size is at most max_size when max_size is set
PolicyAllows(config, size, mime) ==
    LET policy == IF config.has_tenant THEN config.tenant ELSE config.default
    IN policy.enabled =>
          /\ (mime \in policy.allowed_mime_types \/ "*" \in policy.allowed_mime_types)
          /\ (policy.max_size # 0 => size <= policy.max_size)

\* C14: export-policy gate.  File bytes are sent only for a file whose name
\* passes the path guard and which satisfies the evaluated export policy; a
\* file that fails the policy is answered 400 and none of its bytes is sent.
C14_ExportPolicyGate ==
    /\ ex.body # <<>>
         => (check_filename(ex.name) /\ PolicyAllows(ex.config, Len(ex.file), ex.mime))
    /\ (ex.pc # "idle" /\ ex.file # <<>> /\ ~PolicyAllows(ex.config, Len(ex.file), ex.mime))
         => (ex.pc = "done" /\ ex.status = 400 /\ ex.body = <<>>)

\* a file was refused by the tenant's policy for its size alone
C14_Witness ==
    /\ ex.pc = "done" /\ ex.status = 400 /\ ex.file # <<>>
    /\ ex.config.has_tenant /\ ex.config.tenant.enabled
    /\ ex.mime \in ex.config.tenant.allowed_mime_types
    /\ Len(ex.file) > ex.config.tenant.max_size /\ ex.config.tenant.max_size # 0

\* a GET for the directory entry e, at the instant of the listing, sends the
\* entry's bytes
WouldServe(config, e) ==
    /\ ~e.isdir
    /\ get_checks("valid", e.name, TRUE, e.size, e.mime, 1, config, <<>>, 1, <<>>, "").status
          = 200

\* the response is a directory listing
IsListing == ex.pc = "done" /\ ex.name = "" /\ ex.auth = "valid" /\ ex.status = 200

\* C15: the listing's decision is the serving decision.  Every listed entry a
\* GET would refuse is reported exportable = false with a reason that is not
\* null, and every entry reported exportable = true with reason null would be
\* served by a GET.
C15_ListingMatchesServing ==
    IsListing =>
        \A i \in 1..Len(ex.listing) :
            /\ ~WouldServe(ex.config, ex.dir[i])
                 => (ex.listing[i].exportable = "false" /\ ex.listing[i].reason # "null")
            /\ (ex.listing[i].exportable = "true" /\ ex.listing[i].reason = "null")
                 => WouldServe(ex.config, ex.dir[i])

\* C16: the listing excludes directories: no entry of the files list names a
\* sub-directory of the export directory.
C16_ListingExcludesDirectories ==
    IsListing =>
        \A i \in 1..Len(ex.listing) :
            \A j \in 1..Len(ex.dir) :
                ex.dir[j].name = ex.listing[i].filename => ~ex.dir[j].isdir

\* C17: the token gate's status codes.  A request without Authorization header
\* ends with 400, one with a malformed header with 400, a tenant mismatch (the
\* tenant check enabled) with 400, a signature or expiry failure with 401.
C17_TokenGateStatus ==
    ex.pc = "done" =>
        /\ ex.auth \in {"missing", "malformed", "tenant_mismatch"} => ex.status = 400
        /\ ex.auth = "bad_signature" => ex.status = 401

\* C30: a GET without Range header for an exportable file of size S, for any
\* export_chunk_size >= 1: every turn of the loop sends at most
\* export_chunk_size bytes, what was sent is the front of the file, and when
\* the response ends its body is exactly the S bytes of the file, in order,
\* and Content-Length is S.
C30_WholeFileStreamed ==
    [][ ex.pc = "loop_whole"
          => /\ Len(ex'.body) <= Len(ex.body) + ex.CHUNK_SIZE
             /\ ex'.body = SubSeq(ex.file, 1, Len(ex'.body))
             /\ ex'.pc = "done"
                  => (ex'.body = ex.file /\ ex'.content_length = Len(ex.file)) ]_vars

\* a file of the largest size was sent whole in blocks that do not divide it
C30_Witness ==
    /\ ex.pc = "done" /\ ex.status = 200 /\ ex.name = "report.txt" /\ ex.range = <<>>
    /\ Len(ex.file) = MaxFileSize /\ ex.CHUNK_SIZE = 2 /\ ex.body = ex.file

----------------------------------------------------------------------------
(* Properties of direct ingestion *)

\* C18: a PUT or POST whose URL filename the path guard rejects is answered
\* 400 with a {message} envelope, and the step creates, renames and removes no
\* file.
C18_IllegalFilenameRejected ==
    [][ (resp' # resp /\ resp'.kind \in {"PUT", "POST"} /\ ~check_filename(resp'.t))
          => (resp'.status = 400 /\ resp'.msg # "" /\ fs' = fs) ]_vars

\* C19: for a PUT/POST with a transform content type, when a child process of
\* the pipeline exits with non-zero status the response is 400 (not 201) and
\* the staged file is deleted, not renamed to the visible path.
C19_ChildFailureSurfaced ==
    [][ \A r \in Reqs :
          (req[r].pc = "body" /\ req'[r].pc = "done"
             /\ req'[r].custom_content_type \in Transforms
             /\ req'[r].child_exit \notin {Absent, 0})
          => /\ req'[r].status = 400
             /\ ~lexists(fs', req[r].path)
             /\ (lexists(fs', req[r].path_part) => lexists(fs, req[r].path_part)
                                                    /\ fs'[req[r].path_part] = fs[req[r].path_part])
      ]_vars

\* C20: the request hook is invoked for a request if and only if it is a PUT
\* or POST that completed successfully (answered 201): never for a request
\* that failed in prepare or in data_received.
C20_HookOnlyOnSuccess ==
    /\ \A k \in hooks :
         req[k.r].pc = "done" /\ req[k.r].status = 201 /\ req[k.r].method \in {"PUT", "POST"}
    /\ \A r \in Reqs :
         (req[r].pc = "done" /\ req[r].status = 201 /\ req[r].method \in {"PUT", "POST"})
            => \E k \in hooks : k.r = r

\* C24: when the client disconnects mid-body of a PUT or POST, the handler
\* closes the open file, the partly received data is not under the visible
\* path P, the request hook is invoked with the current path unless the
\* backend is cluster with a tenant other than p01, and the cleanup completes
\* without raising on every backend, cluster included.
C24_DisconnectCleanup ==
    \A r \in Reqs :
        req[r].pc \in {"closed", "close_raised"}
        => /\ req[r].target_file # "open"
           /\ lexists(fs, req[r].path_part) => BytesOf(fs[req[r].path_part], r) = {}
           /\ (req[r].target_file = "closed" /\ site.request_hook_enabled
                 /\ ~(site.backend = "cluster" /\ site.tenant # "p01"))
                => [r |-> r, path |-> req[r].path] \in hooks
           /\ req[r].pc # "close_raised"

\* the whole body of request r
BodyOf(r) == [i \in 1..BodyChunks |-> BodyByte(r, i)]

\* request r wrote directly (no transform content type) and was answered 201
DirectDone(r) ==
    /\ req[r].pc = "done" /\ req[r].status = 201 /\ req[r].msg = "data streamed"
    /\ req[r].custom_content_type = ""

\* no other request has touched the target of request r
AloneOnTarget(rq, r) == \A q \in Reqs \ {r} : rq[q].pc = "idle" \/ rq[q].t # rq[r].t

\* C25: after a PUT without transform content type is answered 201 "data
\* streamed", no other request touching its target, the visible path P exists,
\* its content is exactly the request body (whatever P held before), and the
\* staging file P.<uuid>.part of the request is gone.
C25_PutReplaces ==
    \A r \in Reqs :
        (DirectDone(r) /\ req[r].method = "PUT" /\ AloneOnTarget(req, r))
        => /\ lexists(fs, Visible(req[r].t))
           /\ fs[Visible(req[r].t)] = BodyOf(r)
           /\ ~lexists(fs, PartOf(Visible(req[r].t), r))

\* a PUT replaced a file that existed
C25_Witness ==
    \E r \in Reqs :
        /\ DirectDone(r) /\ req[r].method = "PUT" /\ AloneOnTarget(req, r)
        /\ req[r].found = OldContent /\ fs[Visible(req[r].t)] = BodyOf(r)

\* C26: a successful POST without transform content type to a target that
\* holds content C, no other request on the target, leaves it with C followed
\* by the request body; a successful PUT leaves it with the request body only.
C26_PostAppends ==
    \A r \in Reqs :
        (DirectDone(r) /\ AloneOnTarget(req, r) /\ lexists(fs, Visible(req[r].t)))
        => /\ req[r].method = "POST" => fs[Visible(req[r].t)] = req[r].found \o BodyOf(r)
           /\ req[r].method = "PUT" => fs[Visible(req[r].t)] = BodyOf(r)

\* a POST appended to a file that existed
C26_Witness ==
    \E r \in Reqs :
        /\ DirectDone(r) /\ req[r].method = "POST" /\ AloneOnTarget(req, r)
        /\ req[r].found = OldContent /\ fs[Visible(req[r].t)] = OldContent \o BodyOf(r)

\* request r is writing directly, another direct-write request q is under way
\* or done on a different filename, and no request shares r's filename
OtherFilename(rq, r) ==
    /\ rq[r].pc # "idle" /\ rq[r].custom_content_type = "" /\ rq[r].target_file # "none"
    /\ AloneOnTarget(rq, r)
    /\ \E q \in Reqs \ {r} :
          rq[q].pc # "idle" /\ rq[q].custom_content_type = "" /\ rq[q].target_file # "none"

\* C27: two direct-write requests for different filenames do not interfere.
\* A step of one of them leaves every file of the other filename (the visible
\* file and its staging files) as it was, and when it ends its outcome is what
\* it is alone: 201 and the body under its filename (after the old content
\* for a POST).
C27_DifferentFilenamesIndependent ==
    [][ \A r \in Reqs :
          (req'[r] # req[r] /\ OtherFilename(req', r))
          => /\ \A name \in DOMAIN fs \cup DOMAIN fs' :
                  name.t # req'[r].t
                  => (lexists(fs, name) /\ lexists(fs', name) /\ fs'[name] = fs[name])
             /\ (req[r].pc = "body" /\ req[r].recvd = req[r].len /\ req'[r].pc = "done")
                  => /\ req'[r].status = 201
                     /\ lexists(fs', Visible(req'[r].t))
                     /\ fs'[Visible(req'[r].t)] =
                          (IF req'[r].method = "POST" THEN req'[r].found ELSE <<>>) \o BodyOf(r)
      ]_vars

\* two direct writes to F1 and F2 overlapped and both ended with 201
C27_Witness ==
    \E r, q \in Reqs :
        /\ r # q /\ DirectDone(r) /\ DirectDone(q) /\ req[r].t # req[q].t
        /\ \E kr, kq \in hooks : kr.r = r /\ kq.r = q
        /\ req[r].found = OldContent /\ req[q].method = "POST"
        /\ fs[Visible(req[q].t)] = req[q].found \o BodyOf(q)

\* C28 as stated: every merged non-final PATCH chunk N of target T is answered
\* 201 with {filename, id, max_chunk}, id the upload id used for the merge,
\* max_chunk N, and filename the chunk's stored name T.chunk.N.
C28_ChunkResponseStoredName ==
    \A r \in Reqs :
        Merged201(r)
        => /\ req[r].body.id = req[r].upload_id
           /\ req[r].body.max_chunk = req[r].arg_chunk
           /\ req[r].body.filename
                = basename(ChunkName(req[r].t, req[r].upload_id, req[r].arg_chunk))

\* C28, amended: every merged non-final PATCH chunk N of target T is answered
\* 201 with {filename, id, max_chunk}, id the upload id the chunk was merged
\* into, max_chunk N, and filename the chunk's stored name cut at '.chunk':
\* the target's name T.
C28_ChunkResponse ==
    \A r \in Reqs :
        Merged201(r)
        => /\ req[r].body.id = req[r].upload_id
           /\ req[r].body.id \in DOMAIN merged
           /\ \E i \in 1..Len(merged[req[r].body.id]) :
                 merged[req[r].body.id][i] =
                     [n |-> req[r].arg_chunk,
                      body |-> [k \in 1..PatchBodyChunks |-> BodyByte(r, k)]]
           /\ req[r].body.max_chunk = req[r].arg_chunk
           /\ req[r].body.filename = <<req[r].t>>

\* the first chunk of an upload, sent with id=None, was merged and answered
\* with the id the engine minted, and so was the second chunk
C28_Witness ==
    \E r, q \in Reqs :
        /\ Merged201(r) /\ req[r].arg_id = NoneId /\ req[r].arg_chunk = 1
        /\ req[r].body = [filename |-> <<"F1">>, id |-> 1, max_chunk |-> 1]
        /\ Merged201(q) /\ req[q].arg_id = 1 /\ req[q].body.max_chunk = 2

\* C29: a direct-ingestion request without group query parameter is processed
\* with the group <tenant>-member-group: the absence of the parameter never
\* makes the request fail.  A PATCH that starts an upload (id=None, chunk N)
\* and carries no group is not answered "stream processing failed".
C29_GroupDefaults ==
    (resp.kind = "PATCH" /\ ~resp.arg_group /\ resp.arg_id = NoneId /\ resp.arg_chunk # End)
    => resp.msg # "stream processing failed"

----------------------------------------------------------------------------
(* ProxyHandler: one request relayed to the ingestion handler.  prepare     *)
(* starts the inner request; data_received (the producer) and body_producer *)
(* (the consumer, driven by the HTTP client) are coroutines that suspend at *)
(* the queue and at the write, and interleave.                              *)

\* the tenant of the URL
ProxyTenant == "p11"

\* tenant + '-member-group', in pieces
MemberGroup(tenant) == <<tenant, "-", "member", "-", "group">>

\* group names a request or a token may carry; the last has no valid shape
GroupNames ==
    {MemberGroup("p11"), <<"p11", "-", "admin", "-", "group">>, MemberGroup("p12"),
     <<"p11", "-", "admin">>}

\* the group query parameter; <<>>: the URL has none
GroupArgs == GroupNames \cup {<<>>}

\* the groups claim of a token that has one
GroupClaims ==
    {{}, {MemberGroup("p11")}, {MemberGroup("p11"), <<"p11", "-", "admin", "-", "group">>},
     {MemberGroup("p12")}}

\* utils.IS_VALID_GROUPNAME: <tenant>-<word>-group
IS_VALID_GROUPNAME(g) ==
    Len(g) = 5 /\ g[2] = "-" /\ g[4] = "-" /\ g[5] = "group"
    /\ g[1] \in {"p11", "p12"} /\ g[3] \in {"member", "admin"}

\* prepare, lines 1286-1298: the group name and the memberships it is checked
\* against.  Without groups claim the parameter is not read: the group is the
\* default and the memberships are that group.
proxy_group(has_groups, groups, arg_group, tenant) ==
    IF has_groups
    THEN [group_name |-> IF arg_group = <<>> THEN MemberGroup(tenant) ELSE arg_group,
          group_memberships |-> groups]
    ELSE [group_name |-> MemberGroup(tenant), group_memberships |-> {MemberGroup(tenant)}]

\* a membership check that lets every group through
group_is_member_always(group_name, group_memberships) == TRUE

\* prepare, line 1310
group_is_member(group_name, group_memberships) == group_name \in group_memberships

\* prepare, lines 1299-1313: the three assertions on the group name
group_checks(group_name, group_memberships, tenant) ==
    /\ IS_VALID_GROUPNAME(group_name)
    /\ split(group_name, "-")[1] = <<tenant>>
    /\ group_is_member(group_name, group_memberships)

\* ProxyHandler.prepare: token, filename, group; then the inner request is
\* started, or the request is finished with 401
ProxyPrepare ==
    /\ px.pc = "idle"
    /\ \E m \in {"PUT", "POST", "PATCH"}, auth \in {"valid", "bad_signature"},
          name \in {"F1", IllegalName}, has_groups \in BOOLEAN, arg_group \in GroupArgs :
       \E groups \in (IF has_groups THEN GroupClaims ELSE {{}}) :
         LET p0 == [NoProxy EXCEPT !.method = m, !.auth = auth, !.filename = name,
                                   !.has_groups = has_groups, !.groups = groups,
                                   !.arg_group = arg_group]
             failed == [p0 EXCEPT !.pc = "done", !.status = 401, !.body = "Request failed"]
             g == proxy_group(has_groups, groups, arg_group, ProxyTenant)
         IN IF process_token_and_extract_claims(auth) # 0 THEN px' = failed
            ELSE IF ~check_filename(name) THEN px' = failed
            ELSE IF ~group_checks(g.group_name, g.group_memberships, ProxyTenant)
            THEN px' = [failed EXCEPT !.group_name = g.group_name]
            ELSE px' = [p0 EXCEPT !.pc = "body", !.group_name = g.group_name,
                                  !.fetch = TRUE, !.producer = "get"]
    /\ UNCHANGED <<fs, req, uploads, nextId, merged, hooks, resp, ex, site>>

\* the sentinel: None
Sentinel == 0

\* the i-th chunk of the relayed body
ProxyByte(i) == 40 + i

\* a queue that never makes a put wait
chunks_full_never(q) == FALSE

\* tornado.queues.Queue(1): a put waits while the queue holds one item
chunks_full(q) == Len(q) >= 1

\* ProxyHandler.data_received: the put completes when the queue has room
ProxyDataReceived ==
    /\ px.pc = "body"
    /\ px.recvd < ProxyChunks
    /\ ~chunks_full(px.chunks)
    /\ px' = [px EXCEPT !.chunks = Append(@, ProxyByte(px.recvd + 1)), !.recvd = @ + 1]
    /\ UNCHANGED <<fs, req, uploads, nextId, merged, hooks, resp, ex, site>>

\* body_producer: one turn of its loop up to the write, or its return at the
\* sentinel; then the write to the inner request
ProxyBodyProducer ==
    /\ px.fetch
    /\ \/ /\ px.producer = "get"
          /\ px.chunks # <<>>
          /\ IF Head(px.chunks) = Sentinel
             THEN px' = [px EXCEPT !.chunks = Tail(@), !.producer = "stopped",
                                   !.got_sentinel = TRUE]
             ELSE px' = [px EXCEPT !.chunks = Tail(@), !.producer = "write",
                                   !.held = Head(px.chunks)]
       \/ /\ px.producer = "write"
          /\ px' = [px EXCEPT !.written = Append(@, px.held), !.held = 0,
                                !.producer = "get"]
    /\ UNCHANGED <<fs, req, uploads, nextId, merged, hooks, resp, ex, site>>

\* post, put and patch, first line: the sentinel is put after the whole body
ProxyMethod ==
    /\ px.pc = "body"
    /\ px.recvd = ProxyChunks
    /\ ~chunks_full(px.chunks)
    /\ px' = [px EXCEPT !.chunks = Append(@, Sentinel), !.pc = "await"]
    /\ UNCHANGED <<fs, req, uploads, nextId, merged, hooks, resp, ex, site>>

\* what StreamHandler answers the inner request with
InnerResponses(m) ==
    IF m = "PATCH"
    THEN {[status |-> 201, body |-> "filename,id,max_chunk"],
          [status |-> 200, body |-> "chunk_order_incorrect"],
          [status |-> 200, body |-> "stream processing failed"],
          [status |-> 500, body |-> "error"]}
    ELSE {[status |-> 201, body |-> "data streamed"],
          [status |-> 200, body |-> "stream processing failed"],
          [status |-> 500, body |-> "error"]}

\* json.loads(body)['message']: "" stands for the KeyError of a body without it
json_message(body) == IF body = "filename,id,max_chunk" THEN "" ELSE body

\* lines 1344-1349 and 1375: fetch is called without raise_error=False, so the
\* future raises HTTPError for a response code outside 200..299
fetch_raises(code) == code < 200 \/ code >= 300

\* the answer to an exception no handler catches
UncaughtError == [status |-> 500, body |-> "Internal Server Error"]

\* post, put (lines 1375-1377, 1384-1386) and patch (lines 1393-1404) once the
\* inner response is there
proxy_response(m, inner) ==
    IF fetch_raises(inner.status) THEN UncaughtError
    ELSE IF m = "PATCH" /\ json_message(inner.body) = "chunk_order_incorrect"
    THEN [status |-> 400, body |-> inner.body]
    ELSE [status |-> inner.status, body |-> inner.body]

\* post, put and patch after the sentinel: the inner response, once the inner
\* request has its whole body, becomes the outer response
ProxyResponse ==
    /\ px.pc = "await"
    /\ px.producer = "stopped"
    /\ \E inner \in InnerResponses(px.method) :
         LET out == proxy_response(px.method, inner)
         IN px' = [px EXCEPT !.pc = "done", !.inner = inner,
                             !.status = out.status, !.body = out.body]
    /\ UNCHANGED <<fs, req, uploads, nextId, merged, hooks, resp, ex, site>>

NextProxy == ProxyPrepare \/ ProxyDataReceived \/ ProxyBodyProducer \/ ProxyMethod
             \/ ProxyResponse

SpecProxy == Init /\ [][NextProxy]_vars

\* C21: in the proxy PATCH handler, an inner response {message:
\* "chunk_order_incorrect"} gives the outer response status 400 and the same
\* body; every other inner response gives the outer response the inner status
\* code and body.
C21_ProxyPatchRewrite ==
    (px.pc = "done" /\ px.fetch /\ px.method = "PATCH")
    => IF px.inner.body = "chunk_order_incorrect"
       THEN px.status = 400 /\ px.body = px.inner.body
       ELSE px.status = px.inner.status /\ px.body = px.inner.body

\* the chunks of the queue, the sentinel left out
QueuedChunks == SelectSeq(px.chunks, LAMBDA c : c # Sentinel)

\* the chunk body_producer holds between its get and its write
HeldChunk == IF px.producer = "write" THEN <<px.held>> ELSE <<>>

\* the chunks data_received has put so far
ReceivedChunks == [i \in 1..px.recvd |-> ProxyByte(i)]

\* C22: in the proxy relay, whatever the interleaving of data_received and
\* body_producer: the queue never holds more than one element; the chunks
\* written to the inner request, then the one in hand, then the one queued are
\* the chunks received, in order, none lost, none twice; and body_producer
\* has stopped exactly when it took the sentinel, which the method handler
\* put after the last chunk, so that all chunks are written by then.
C22_RelayOrder ==
    /\ Len(px.chunks) <= 1
    /\ px.written \o HeldChunk \o QueuedChunks = ReceivedChunks
    /\ px.producer = "stopped" <=> px.got_sentinel
    /\ px.got_sentinel
         => /\ px.pc \in {"await", "done"}
            /\ px.written = [i \in 1..ProxyChunks |-> ProxyByte(i)]
            /\ px.chunks = <<>>
    /\ (\E i \in 1..Len(px.chunks) : px.chunks[i] = Sentinel) => px.recvd = ProxyChunks

\* the whole body was relayed and body_producer stopped at the sentinel
C22_Witness ==
    /\ px.pc = "done" /\ px.got_sentinel /\ px.producer = "stopped"
    /\ px.written = <<ProxyByte(1), ProxyByte(2)>>

\* the group the request names: the group parameter, or <tenant>-member-group
NamedGroup == IF px.arg_group = <<>> THEN MemberGroup(ProxyTenant) ELSE px.arg_group

\* C23 as stated: the inner request is started only if the group name (the
\* group parameter, or <tenant>-member-group) matches the valid-group regex,
\* its prefix before the first '-' is the URL tenant and it is in the caller's
\* groups claim; otherwise none is started and the request ends with an error.
C23_GroupGateClaimOnly ==
    px.pc # "idle"
    => IF /\ IS_VALID_GROUPNAME(NamedGroup)
          /\ split(NamedGroup, "-")[1] = <<ProxyTenant>>
          /\ px.has_groups /\ NamedGroup \in px.groups
       THEN TRUE
       ELSE ~px.fetch /\ px.pc = "done" /\ px.status >= 400

\* the group prepare checks: without groups claim in the token, the default
\* group whatever the parameter
CheckedGroup == IF px.has_groups THEN NamedGroup ELSE MemberGroup(ProxyTenant)

\* C23, amended: the inner request is started only if the group name matches
\* the valid-group regex, its prefix before the first '-' is the URL tenant
\* and, when the token has a groups claim, it is in that claim; the group
\* name is the group parameter, defaulting to <tenant>-member-group, and for a
\* token without groups claim always <tenant>-member-group.  If a check fails
\* no inner request is started and the request ends with 401.
C23_GroupGate ==
    px.pc # "idle"
    => IF /\ IS_VALID_GROUPNAME(CheckedGroup)
          /\ split(CheckedGroup, "-")[1] = <<ProxyTenant>>
          /\ px.has_groups => CheckedGroup \in px.groups
       THEN px.fetch => px.group_name = CheckedGroup
       ELSE ~px.fetch /\ px.pc = "done" /\ px.status = 401 /\ px.body = "Request failed"

\* a request was refused for a group the token does not list, and another
\* state has the inner request started for a group it lists
C23_Witness ==
    /\ px.pc = "done" /\ ~px.fetch /\ px.auth = "valid" /\ px.filename = "F1"
    /\ px.has_groups /\ px.groups = {MemberGroup("p11")}
    /\ px.arg_group = <<"p11", "-", "admin", "-", "group">>
    /\ px.status = 401


\* ---------------------------------------------------------------------------
\* Failures in prepare (SpecFaults)

\* request r's prepare runs in this step
PrepareStep(r) == req[r].pc = "idle" /\ (req'[r].pc # "idle" \/ resp' # resp)

\* the URL filename of the request whose prepare runs in this step
PreparedName(r) == IF req'[r].pc # "idle" THEN req'[r].t ELSE resp'.t

\* C31: when the staging path computed for a request exists already, prepare
\* finishes the request with an error envelope, opens no file and leaves the
\* visible file and the staging file as they were
C31_StaleStagingAborts ==
    [][\A r \in FaultReqs :
          (PrepareStep(r) /\ lexists(fs, PartOf(Visible(PreparedName(r)), r)))
              => /\ req'[r].pc = "idle"
                 /\ resp'.msg = "stream processing failed"
                 /\ fs' = fs]_vars


\* prepare set up the request's sink: a file object or a child process
PrepareSucceeded(h) == h.target_file # "none" \/ h.custom_content_type # ""

\* C33: a request whose prepare met an error is finished inside prepare: none
\* goes on to data_received or to the method handler
C33_FailedPrepareFinishes ==
    \A r \in FaultReqs : req[r].pc # "idle" => PrepareSucceeded(req[r])


\* ---------------------------------------------------------------------------
\* The request hook and the backend (SpecDisconnect)

\* request r, a PUT or POST, was answered 201
Succeeded(r) == req[r].pc = "done" /\ req[r].status = 201

\* the request hook ran for request r
HookInvoked(r) == \E k \in hooks : k.r = r

FailedAfterPrepare(r) ==
    /\ req[r].custom_content_type = "" /\ req[r].target_file # "none"
    /\ req[r].found = OldContent
    /\ req[r].pc = "closed" \/ (req[r].pc = "done" /\ req[r].status = 500)

\* C34: after a PUT or POST to an existing file P fails in data_received or
\* is cut off by the client, no other request on P, P exists under its visible
\* name with the content it had before the request
C34_FailedUploadKeepsFile ==
    \A r \in StreamReqs :
        (FailedAfterPrepare(r) /\ AloneOnTarget(req, r))
            => /\ lexists(fs, Visible(req[r].t))
               /\ fs[Visible(req[r].t)] = req[r].found


\* requests 1 and 2 wrote directly to the same target, overlapped (2 arrived
\* while 1 was receiving its body) and were both answered 201
BothDone == DirectDone(1) /\ DirectDone(2) /\ req[1].t = req[2].t

\* request 2's prepare ran before request 1's method handler: the target was
\* not visible then, request 1 having moved it aside or not yet created it
Overlapped == BothDone /\ req[2].found = <<>> /\ req[1].found = OldContent

\* what request r leaves of content c: POST appends, PUT replaces
Apply(r, c) == IF req[r].method = "POST" THEN c \o BodyOf(r) ELSE BodyOf(r)

\* C35: when two overlapping direct-write requests on one target P both
\* succeed, P holds what the two requests leave when run one after the other
\* in some order, starting from the content P had
C35_Serializable ==
    Overlapped =>
        /\ lexists(fs, Visible(req[1].t))
        /\ fs[Visible(req[1].t)] \in {Apply(2, Apply(1, req[1].found)),
                                      Apply(1, Apply(2, req[1].found))}


\* ---------------------------------------------------------------------------
\* Range bounds and HEAD (SpecExport)

\* C36: a ranged GET whose range a-b is not an interval inside the file
\* (b >= size, a > b or a >= size) ends with an error status and sends no
\* byte; a ranged GET never announces a Content-Length that is zero or
\* negative or larger than the bytes from a to the end of the file, and never
\* sends more bytes than announced
C36_RangeBounds ==
    /\ \A a \in 0..(MaxFileSize - 1), b \in 0..(MaxFileSize + 1) :
         (RangedGet /\ IfRangeCurrent /\ ex.range = RangeValue(a, b)
            /\ (b >= Len(ex.file) \/ a > b \/ a >= Len(ex.file)))
         => (ex.pc = "done" /\ ex.status >= 400 /\ ex.body = <<>>)
    /\ (RangedGet /\ ex.content_length # Absent)
         => /\ ex.content_length > 0
            /\ ex.content_length <= Len(ex.file) - ex.client_start
            /\ Len(ex.body) <= ex.content_length


\* the status a GET for the file of the finished request ends its checks with
GetStatus ==
    get_checks(ex.auth, ex.name, TRUE, Len(ex.file), ex.mime, 1, ex.config, <<>>, 1,
               <<>>, "").status

\* C40: a HEAD request ends with 200 only for a file that exists, passes the
\* path guard and satisfies the export policy, and then with Content-Length
\* the file's size and Accept-Ranges; for a file the export policy refuses it
\* ends with the error status the GET ends with
C40_HeadStatus ==
    (ex.method = "HEAD" /\ ex.pc = "done")
        => /\ ex.status = 200
                => /\ ex.file # <<>> /\ check_filename(ex.name)
                   /\ PolicyAllows(ex.config, Len(ex.file), ex.mime)
                   /\ ex.content_length = Len(ex.file) /\ ex.accept_ranges
           /\ (ex.file # <<>> /\ ~PolicyAllows(ex.config, Len(ex.file), ex.mime))
                => (ex.status # 200 /\ ex.status = GetStatus)


\* ---------------------------------------------------------------------------
\* The tenant directories of the handlers (SpecDirs)

Backends == {"cluster", "files", "store"}
Tenants == {"p01", "p11"}

\* options.tenant_string_pattern
tenant_string_pattern == "pXX"

\* the paths a configuration may give a backend, as the pieces of the string
\* around the tenant pattern
ImportPaths == {<<"/tsd/", "pXX", "/import">>, <<"/cluster/", "pXX", "/import">>}
AdminPaths == {<<"/cluster/", "pXX", "/admin">>, <<"/tsd/", "pXX", "/import">>}

\* options.config['backends']['disk']
DiskConfigs == [Backends -> [import_path : ImportPaths, admin_path : AdminPaths]]

\* str.replace(old, new) on a path
replace(path, old, new) == [i \in 1..Len(path) |-> IF path[i] = old THEN new ELSE path[i]]

\* initialize, lines 936 and 737: the key of the backend's path
path_key(backend, tenant) ==
    IF backend = "cluster" /\ tenant = "p01" THEN "admin_path" ELSE "import_path"

\* the directory of a backend's configuration under a key
config_path(config, backend, key) ==
    IF key = "admin_path" THEN config[backend].admin_path ELSE config[backend].import_path

\* StreamHandler.initialize, lines 934-940: self.tenant_dir
stream_tenant_dir(config, backend, tenant) ==
    replace(config_path(config, backend, path_key(backend, tenant)),
            tenant_string_pattern, tenant)

\* ResumablesHandler.initialize, lines 734-741: self.tenant_dir
resumables_tenant_dir(config, backend, tenant) ==
    replace(config_path(config, "files", path_key(backend, tenant)),
            tenant_string_pattern, tenant)

\* no handler of the kind was made yet
NoDir == <<>>

\* a request to /B/upload_stream: StreamHandler.initialize
StreamInitialize ==
    /\ site.upload_stream_dir = NoDir
    /\ site' = [site EXCEPT !.upload_stream_dir =
                                stream_tenant_dir(site.config, site.backend, site.tenant)]
    /\ UNCHANGED <<fs, req, uploads, nextId, merged, hooks, resp, ex, px>>

\* a request to /B/resumables: ResumablesHandler.initialize
ResumablesInitialize ==
    /\ site.resumables_dir = NoDir
    /\ site' = [site EXCEPT !.resumables_dir =
                                resumables_tenant_dir(site.config, site.backend, site.tenant)]
    /\ UNCHANGED <<fs, req, uploads, nextId, merged, hooks, resp, ex, px>>

\* one backend, one tenant and one configuration; no handler made
InitDirs ==
    /\ fs = <<>>
    /\ req = [r \in Reqs |-> IdleReq]
    /\ uploads = <<>>
    /\ nextId = 1
    /\ merged = <<>>
    /\ hooks = {}
    /\ resp = NoResp
    /\ ex = NoExport
    /\ px = NoProxy
    /\ \E b \in Backends, t \in Tenants, c \in DiskConfigs :
          site = [backend |-> b, tenant |-> t, request_hook_enabled |-> b # "store",
                  config |-> c, upload_stream_dir |-> NoDir, resumables_dir |-> NoDir]

NextDirs == StreamInitialize \/ ResumablesInitialize

SpecDirs == InitDirs /\ [][NextDirs]_vars

\* C38: for every backend and tenant, the resumables endpoint of the backend
\* works in the tenant directory of the backend's upload_stream endpoint
C38_SameTenantDir ==
    (site.upload_stream_dir # NoDir /\ site.resumables_dir # NoDir)
        => site.resumables_dir = site.upload_stream_dir


\* ---------------------------------------------------------------------------
\* The proxy when the inner request fails (SpecProxyFair)

\* body_producer, line 1364: write(chunk) raises, the inner connection being
\* closed or the inner request having timed out; the coroutine ends, the chunk
\* in hand is dropped and the queue is read no more
ProxyInnerFails ==
    /\ px.fetch
    /\ px.producer = "write"
    /\ px' = [px EXCEPT !.producer = "failed", !.held = 0]
    /\ UNCHANGED <<fs, req, uploads, nextId, merged, hooks, resp, ex, site>>

\* post, put and patch after the sentinel: `yield self.fetch_future` raises
\* the error of the inner request, which no handler catches
ProxyFetchRaises ==
    /\ px.pc = "await"
    /\ px.producer = "failed"
    /\ px' = [px EXCEPT !.pc = "done", !.status = UncaughtError.status,
                        !.body = UncaughtError.body]
    /\ UNCHANGED <<fs, req, uploads, nextId, merged, hooks, resp, ex, site>>

NextProxyFair ==
    \/ ProxyPrepare
    \/ ProxyDataReceived
    \/ ProxyBodyProducer
    \/ ProxyMethod
    \/ ProxyResponse
    \/ ProxyInnerFails
    \/ ProxyFetchRaises

\* the client sends its whole body and the event loop runs every callback and
\* coroutine that can run; the inner request may fail, or not
SpecProxyFair ==
    /\ Init
    /\ [][NextProxyFair]_vars
    /\ WF_vars(ProxyDataReceived)
    /\ WF_vars(ProxyBodyProducer)
    /\ WF_vars(ProxyMethod)
    /\ WF_vars(ProxyResponse)
    /\ WF_vars(ProxyFetchRaises)

\* C39: every request the proxy accepted is answered in the end
C39_ProxyAnswers == (px.pc = "body") ~> (px.pc = "done")


\* ---------------------------------------------------------------------------
\* The token gate in every handler (SpecAuth)

\* Authorization headers the token gate refuses
BadAuth == AuthKinds \ {"valid"}

\* StreamHandler.prepare for a PUT or POST whose token the gate refuses
StreamUnauthorized(r) ==
    /\ NextToArrive(r)
    /\ \E auth \in BadAuth, m \in {"PUT", "POST"} :
         prepare_put_post(r, "", auth, m, "F1", "application/octet-stream", FALSE)
    /\ UNCHANGED <<uploads, nextId, merged, ex, site, px>>

\* StreamHandler.prepare for a PATCH whose token the gate refuses
PatchUnauthorized(r) ==
    \E auth \in BadAuth, chunk \in ChunkArgs :
        LET token == process_token_and_extract_claims(auth)
            h0 == [IdleReq EXCEPT !.method = "PATCH", !.t = "F1", !.auth = auth,
                                  !.arg_chunk = chunk, !.arg_id = NoneId, !.arg_group = TRUE]
            h1 == token_failed(h0, token)
        IN IF token # 0
           THEN /\ NextToArrive(r)
                /\ resp' = Finished(h1)
                /\ req' = req
                /\ fs' = on_finish_fs(fs, h1)
                /\ hooks' = on_finish_hooks(hooks, r, h1)
                /\ UNCHANGED <<uploads, nextId, merged, ex, site, px>>
           ELSE PreparePatch(r, "A", "F1", chunk, NoneId, TRUE)

\* ResumablesHandler.prepare, lines 746-751, re-raises the failure of the
\* token gate: no handler catches it, the response is 500 and get or delete
\* does not run
ResumablesUnauthorized ==
    \E auth \in BadAuth, kind \in {"get", "delete"}, id \in 1..MaxUploads :
        IF process_token_and_extract_claims(auth) # 0
        THEN /\ resp' = [NoResp EXCEPT !.kind = kind, !.arg_id = id,
                                        !.status = UncaughtError.status,
                                        !.token_failed = TRUE]
             /\ UNCHANGED <<fs, req, uploads, nextId, merged, hooks, ex, site, px>>
        ELSE IF kind = "get"
        THEN ResumablesGet("A", FALSE, "F1", id)
        ELSE ResumablesDelete("A", "F1", id)

\* no request was made to upload_stream or resumables, to export, to the proxy
StreamIdle ==
    /\ fs = <<>> /\ uploads = <<>> /\ resp = NoResp
    /\ \A r \in Reqs : req[r].pc = "idle"

\* the requests of a behaviour go to the ingestion and resumables endpoints,
\* or to the export endpoint, or to the proxy
IngestOnly == ex.pc = "idle" /\ px.pc = "idle"
ExportOnly == StreamIdle /\ px.pc = "idle"
ProxyOnly == StreamIdle /\ ex.pc = "idle"

NextAuth ==
    \/ IngestOnly /\ Next
    \/ IngestOnly /\ \E r \in PatchReqs : StreamUnauthorized(r)
    \/ IngestOnly /\ \E r \in PatchReqs : PatchUnauthorized(r)
    \/ IngestOnly /\ ResumablesUnauthorized
    \/ ExportOnly /\ ExportGet
    \/ ExportOnly /\ ExportLoop
    \/ ExportOnly /\ ExportHead
    \/ ProxyOnly /\ NextProxy

SpecAuth == Init /\ [][NextAuth]_vars

====
